-------------------------- MODULE JobSchedulesProofs --------------------------
(***************************************************************************)
(* The lists and the programs that edit schedules and runs, for any items, *)
(* pages, limits, data, retries and other clients: an iterator answers     *)
(* each item once and misses none that stayed, a name is not guessed, and  *)
(* an edit keeps what it does not touch.                                   *)
(***************************************************************************)
EXTENDS JobSchedules, JobValuesProofs, SequenceTheorems

-----------------------------------------------------------------------------
(* The invariant.                                                          *)

\* The types, but for the lists.
Types == /\ mode \in {"iterate", "edit"}
         /\ stored \in [Ids -> Messages] /\ runs \in Seq(JobProtos)
         /\ held \in Held /\ call \in CallRecords

\* What has been answered, and then what is left of the page, is in order; the page
\* lies between its token and the next one.
OrderInv ==
    LET p == pager IN
    /\ Ordered(p.answered) /\ \A k \in DOMAIN p.answered : k <= p.answered[k]
    /\ Ordered(p.page)
    /\ \A k \in DOMAIN p.answered : \A l \in DOMAIN p.page : p.answered[k] < p.page[l]
    /\ p.next # 0 => \A l \in DOMAIN p.page : p.page[l] <= p.next
    /\ \A k \in DOMAIN p.answered :
          /\ p.step = "ask" => p.answered[k] <= p.token
          /\ p.step = "page" /\ p.next # 0 => p.answered[k] <= p.next
    /\ p.limit # NoLimit => Len(p.answered) <= p.limit
    /\ p.byName => p.limit = 2

\* What stayed and has been looked at has been answered or is left in the page.
Answered(i) == \E k \in DOMAIN pager.answered : pager.answered[k] = i
OnPage(i)   == \E l \in DOMAIN pager.page : pager.page[l] = i

CompleteInv == \A i \in stayed :
    LET p == pager IN
    /\ p.step = "ask" /\ i <= p.token => Answered(i)
    /\ p.step = "page" /\ (p.next = 0 \/ i <= p.next) => Answered(i) \/ OnPage(i)
    /\ p.step = "done" /\ ~Full(p) => Answered(i)
    /\ p.step \in {"get", "found"} => Answered(i)

ListInv == /\ present \subseteq Ids /\ stayed \subseteq present /\ pager \in Pagers
           /\ OrderInv /\ CompleteInv
           /\ pager.step \in {"get", "found"} => Len(pager.answered) = 1

\* Whatever is stored, or about to be, has one trigger and one target.
Valid(m) == TimingIsValid(m.timing) /\ JobIsValid(m.spec)
ValidInv == /\ \A i \in Ids : Valid(stored[i])
            /\ call.op = "update" => Valid(call.request)

\* A request is what the program has read, with the edited fields replaced; once it
\* has been done, that is what is stored.
CallInv ==
    /\ held.value = ValueOf(held.raw)
    /\ call.step = "idle" => call = NoCall
    /\ call.step = "sent" => call.done <= call.attempts
    /\ call.step = "answered" => call.done > 0
    /\ call.op = "update" =>
          /\ call.request.spec = JobToProto(held.value.spec)
          /\ call.request.timing =
                [TimingToProto(held.value.timing) EXCEPT
                    !.cron = call.request.timing.cron,
                    !.interval = call.request.timing.interval,
                    !.runAt = call.request.timing.runAt]
          /\ held.of = "schedule" /\ held.id = call.id
          /\ call.done > 0 /\ ~held.touched => stored[call.id] = call.request
    /\ call.op = "rerun" =>
          /\ call.request.spec = [JobToProto(held.value.spec) EXCEPT
                                     !.rest = call.request.spec.rest]
          /\ call.done > 0 => call.run \in DOMAIN runs /\ runs[call.run] = call.request.spec

-----------------------------------------------------------------------------
(* Lists of items.                                                         *)

LEMMA ListIsSeq ==
  ASSUME NEW n \in Nat, NEW s
  PROVE  s \in Lists(n) <=> s \in Seq(Ids) /\ Len(s) <= n
<1>1. ASSUME s \in Lists(n) PROVE s \in Seq(Ids) /\ Len(s) <= n
  <2>1. PICK k \in 0..n : s \in [1..k -> Ids]
    BY <1>1 DEF Lists
  <2>2. s \in Seq(Ids) /\ DOMAIN s = 1..k
    BY <2>1, IsASeq
  <2> QED BY <2>2, LenProperties
<1>2. ASSUME s \in Seq(Ids), Len(s) <= n PROVE s \in Lists(n)
  <2>1. Len(s) \in 0..n /\ s \in [1..Len(s) -> Ids]
    BY <1>2, LenProperties
  <2> QED BY <2>1 DEF Lists
<1> QED BY <1>1, <1>2

LEMMA EmptyList ==
  /\ <<>> \in Lists(MaxId) /\ <<>> \in Lists(ServerPage)
  /\ DOMAIN <<>> = {} /\ Len(<<>>) = 0
<1>1. <<>> \in Seq(Ids) /\ Len(<<>>) = 0 /\ DOMAIN <<>> = {}
  BY EmptySeq
<1>2. MaxId \in Nat /\ ServerPage \in Nat /\ 0 <= MaxId /\ 0 <= ServerPage
  BY ListingAssumption
<1> QED BY <1>1, <1>2, ListIsSeq

LEMMA AppendList ==
  ASSUME NEW s \in Seq(Ids), NEW x \in Ids
  PROVE  LET t == Append(s, x) IN
         /\ t \in Seq(Ids) /\ Len(t) = Len(s) + 1 /\ t[Len(t)] = x
         /\ \A k \in DOMAIN t : \/ k \in DOMAIN s /\ t[k] = s[k]
                                \/ k = Len(s) + 1 /\ t[k] = x
         /\ \A k \in DOMAIN s : k \in DOMAIN t /\ t[k] = s[k]
BY AppendProperties, LenProperties

LEMMA TailList ==
  ASSUME NEW s \in Seq(Ids), s # <<>>
  PROVE  /\ Head(s) = s[1] /\ Head(s) \in Ids /\ 1 \in DOMAIN s
         /\ Tail(s) \in Seq(Ids) /\ Len(Tail(s)) = Len(s) - 1
         /\ \A k \in DOMAIN Tail(s) : k + 1 \in DOMAIN s /\ Tail(s)[k] = s[k + 1]
         /\ \A k \in DOMAIN s : k = 1 \/ (k - 1 \in DOMAIN Tail(s) /\ Tail(s)[k - 1] = s[k])
<1>1. Len(s) \in Nat /\ Len(s) # 0 /\ DOMAIN s = 1..Len(s)
  BY LenProperties, EmptySeq
<1>2. /\ Head(s) \in Ids /\ Tail(s) \in Seq(Ids) /\ Len(Tail(s)) = Len(s) - 1
      /\ \A k \in 1..Len(Tail(s)) : Tail(s)[k] = s[k + 1]
  BY HeadTailProperties
<1>3. DOMAIN Tail(s) = 1..(Len(s) - 1)
  BY <1>2, LenProperties
<1>4. Head(s) = s[1]
  OBVIOUS
<1> QED BY <1>1, <1>2, <1>3, <1>4

-----------------------------------------------------------------------------
(* The iterator.                                                           *)

\* The fields of an iterator.
LEMMA PagerFields ==
  ASSUME pager \in Pagers
  PROVE  /\ pager.answered \in Seq(Ids) /\ pager.page \in Seq(Ids)
         /\ Len(pager.answered) <= MaxId /\ Len(pager.page) <= ServerPage
         /\ pager.token \in 0..MaxId /\ pager.next \in 0..MaxId
         /\ pager.limit \in Nat \cup {NoLimit} /\ pager.limit \in Limits \cup {2}
         /\ pager.byName \in BOOLEAN
         /\ Len(pager.answered) \in Nat /\ DOMAIN pager.answered = 1..Len(pager.answered)
<1>1. pager.answered \in Lists(MaxId) /\ pager.page \in Lists(ServerPage)
  BY DEF Pagers
<1>2. /\ pager.answered \in Seq(Ids) /\ pager.page \in Seq(Ids)
      /\ Len(pager.answered) <= MaxId /\ Len(pager.page) <= ServerPage
  BY <1>1, ListIsSeq, ListingAssumption
<1>3. /\ pager.token \in 0..MaxId /\ pager.next \in 0..MaxId /\ pager.byName \in BOOLEAN
      /\ pager.limit \in Limits \cup {2}
  BY DEF Pagers
<1>4. pager.limit \in Nat \cup {NoLimit}
  <2>1. Limits \subseteq Nat \cup {NoLimit} /\ 2 \in Nat
    BY ListingAssumption
  <2> QED BY <1>3, <2>1, Zenon
<1>5. Len(pager.answered) \in Nat /\ DOMAIN pager.answered = 1..Len(pager.answered)
  BY <1>2, LenProperties
<1> QED BY <1>2, <1>3, <1>4, <1>5

LEMMA NewPager ==
  ASSUME NEW l \in Limits \cup {2}, NEW b \in BOOLEAN, b => l = 2,
         NEW step \in {"idle", "ask", "done"}, step = "done" => l = 0,
         NEW p, p = [step |-> step, byName |-> b, limit |-> l, token |-> 0,
                     page |-> <<>>, next |-> 0, answered |-> <<>>],
         pager' = p, stayed' = present, present' = present, present \subseteq Ids
  PROVE  ListInv'
<1>1. /\ p.step = step /\ p.byName = b /\ p.limit = l /\ p.token = 0 /\ p.next = 0
      /\ p.answered = <<>> /\ p.page = <<>>
  OBVIOUS
<1>2. <<>> \in Lists(MaxId) /\ <<>> \in Lists(ServerPage) /\ DOMAIN <<>> = {} /\ Len(<<>>) = 0
  BY EmptyList
<1>3. p \in Pagers
  <2>1. 0 \in 0..MaxId
    BY ListingAssumption
  <2> QED BY <1>2, <2>1 DEF Pagers
<1>4. OrderInv'
  <2>1. l # NoLimit => 0 <= l
    BY ListingAssumption
  <2> QED BY <1>1, <1>2, <2>1 DEF OrderInv, Ordered
<1>5. CompleteInv'
  <2>1. l = 0 => Full(p)
    BY <1>1, <1>2, ListingAssumption DEF Full
  <2>2. \A i \in Ids : ~(i <= 0)
    BY ListingAssumption DEF Ids
  <2> QED BY <1>1, <2>1, <2>2 DEF CompleteInv, Full
<1> QED BY <1>1, <1>3, <1>4, <1>5 DEF ListInv

LEMMA ListStart ==
  ASSUME ListInv, (\E l \in Limits : List(l)) \/ GetByName
  PROVE  ListInv'
<1>1. present \subseteq Ids
  BY DEF ListInv
<1>2. ASSUME NEW l \in Limits, List(l) PROVE ListInv'
  <2>1. PICK step \in {"ask", "done"} :
            /\ step = "done" => l = 0
            /\ pager' = [NoPager(l) EXCEPT !.step = step]
    BY <1>2 DEF List
  <2>2. stayed' = present /\ present' = present
    BY <1>2 DEF List
  <2>3. PICK b \in BOOLEAN : b = FALSE
    OBVIOUS
  <2>4. NoPager(l) = [step |-> "idle", byName |-> b, limit |-> l, token |-> 0,
                      page |-> <<>>, next |-> 0, answered |-> <<>>]
    BY <2>3 DEF NoPager
  <2>5. pager' = [step |-> step, byName |-> b, limit |-> l, token |-> 0,
                  page |-> <<>>, next |-> 0, answered |-> <<>>]
    BY <2>1, <2>4
  <2> QED BY <1>1, <2>1, <2>2, <2>3, <2>5, NewPager
<1>3. CASE GetByName
  <2> DEFINE p == [step |-> "ask", byName |-> TRUE, limit |-> 2, token |-> 0,
                   page |-> <<>>, next |-> 0, answered |-> <<>>]
  <2>1. pager' = p /\ stayed' = present /\ present' = present
    BY <1>3 DEF GetByName, NoPager, NameLimit
  <2> QED BY <1>1, <2>1, NewPager
<1> QED BY <1>2, <1>3

LEMMA FetchStep ==
  ASSUME ListInv, Fetch
  PROVE  ListInv'
<1>1. /\ pager \in Pagers /\ OrderInv /\ CompleteInv /\ stayed \subseteq present
      /\ present \subseteq Ids /\ present' = present /\ stayed' = stayed
  BY DEF ListInv, Fetch
<1>2. PICK page \in Lists(ServerPage), next \in 0..MaxId :
         /\ Ordered(page) /\ Of(page) \subseteq After(pager.token)
         /\ \/ next = 0 /\ Of(page) = After(pager.token)
            \/ /\ next # 0 /\ pager.token <= next
               /\ \A i \in Of(page) : i <= next
               /\ \A j \in After(pager.token) \ Of(page) : next < j
         /\ pager' = [pager EXCEPT !.step = "page", !.page = page, !.next = next]
  BY DEF Fetch
<1>3. pager.step = "ask"
  BY DEF Fetch
<1>4. /\ pager'.step = "page" /\ pager'.page = page /\ pager'.next = next
      /\ pager'.answered = pager.answered /\ pager'.token = pager.token
      /\ pager'.limit = pager.limit /\ pager'.byName = pager.byName
      /\ pager' \in Pagers
  BY <1>1, <1>2 DEF Pagers
<1>5. /\ pager.answered \in Seq(Ids) /\ page \in Seq(Ids) /\ pager.token \in Nat
      /\ \A k \in DOMAIN pager.answered : pager.answered[k] \in Nat
      /\ \A l \in DOMAIN page : page[l] \in Nat /\ page[l] \in Of(page)
  <2>1. page \in Seq(Ids)
    BY ListIsSeq, ListingAssumption
  <2> QED BY <1>1, <2>1, PagerFields, ListingAssumption DEF Ids, Of
<1>6. \A k \in DOMAIN pager.answered : pager.answered[k] <= pager.token
  BY <1>1, <1>3 DEF OrderInv
<1>7. \A l \in DOMAIN page : pager.token < page[l]
  BY <1>2, <1>5 DEF After
<1>8. OrderInv'
  <2>1. \A k \in DOMAIN pager.answered : \A l \in DOMAIN page : pager.answered[k] < page[l]
    BY <1>5, <1>6, <1>7
  <2>2. next # 0 => /\ \A l \in DOMAIN page : page[l] <= next
                    /\ \A k \in DOMAIN pager.answered : pager.answered[k] <= next
    BY <1>2, <1>5, <1>6
  <2> QED BY <1>1, <1>2, <1>4, <2>1, <2>2 DEF OrderInv
<1>9. CompleteInv'
  <2>1. ASSUME NEW i \in stayed, next = 0 \/ i <= next PROVE Answered(i)' \/ OnPage(i)'
    <3>1. CASE i <= pager.token
      BY <1>1, <1>3, <1>4, <3>1 DEF CompleteInv, Answered
    <3>2. CASE ~(i <= pager.token)
      <4>1. i \in After(pager.token) /\ i \in Nat
        BY <1>1, <1>5, <3>2, ListingAssumption DEF After, Ids
      <4>2. i \in Of(page)
        BY <1>2, <2>1, <4>1
      <4> QED BY <1>4, <4>2 DEF OnPage, Of
    <3> QED BY <3>1, <3>2
  <2> QED BY <1>1, <1>4, <2>1 DEF CompleteInv
<1> QED BY <1>1, <1>4, <1>8, <1>9 DEF ListInv

LEMMA YieldStep ==
  ASSUME ListInv, Yield, ~Full(pager)
  PROVE  ListInv'
<1> DEFINE s == pager.answered
           g == pager.page
           x == Head(g)
<1>1. /\ pager \in Pagers /\ OrderInv /\ CompleteInv /\ stayed \subseteq present
      /\ present \subseteq Ids /\ present' = present /\ stayed' = stayed
      /\ pager.step = "page" /\ g # <<>>
      /\ pager' = [pager EXCEPT !.answered = Append(s, x), !.page = Tail(g)]
  BY DEF ListInv, Yield
<1>2. /\ s \in Seq(Ids) /\ g \in Seq(Ids) /\ Len(s) \in Nat /\ DOMAIN s = 1..Len(s)
      /\ Len(g) <= ServerPage /\ pager.next \in Nat
      /\ pager.limit \in Nat \cup {NoLimit}
  BY <1>1, PagerFields
<1>3. /\ pager'.step = "page" /\ pager'.page = Tail(g) /\ pager'.next = pager.next
      /\ pager'.answered = Append(s, x) /\ pager'.token = pager.token
      /\ pager'.limit = pager.limit /\ pager'.byName = pager.byName
  BY <1>1 DEF Pagers
<1>4. /\ x = g[1] /\ x \in Ids /\ 1 \in DOMAIN g
      /\ Tail(g) \in Seq(Ids) /\ Len(Tail(g)) = Len(g) - 1
      /\ \A k \in DOMAIN Tail(g) : k + 1 \in DOMAIN g /\ Tail(g)[k] = g[k + 1]
      /\ \A k \in DOMAIN g : k = 1 \/ (k - 1 \in DOMAIN Tail(g) /\ Tail(g)[k - 1] = g[k])
  BY <1>1, <1>2, TailList
<1> DEFINE t == Append(s, x)
<1>5. /\ t \in Seq(Ids) /\ Len(t) = Len(s) + 1 /\ t[Len(t)] = x
      /\ \A k \in DOMAIN t : \/ k \in DOMAIN s /\ t[k] = s[k]
                             \/ k = Len(s) + 1 /\ t[k] = x
      /\ \A k \in DOMAIN s : k \in DOMAIN t /\ t[k] = s[k]
  BY <1>2, <1>4, AppendList
<1>6. \A i \in Ids : i \in Nat /\ i >= 1 /\ i <= MaxId
  BY ListingAssumption DEF Ids
<1>7. /\ \A k \in DOMAIN s : s[k] \in Nat /\ k <= s[k] /\ s[k] < x
      /\ \A j, k \in DOMAIN s : j < k => s[j] < s[k]
      /\ \A k \in DOMAIN g : g[k] \in Nat
      /\ \A j, k \in DOMAIN g : j < k => g[j] < g[k]
      /\ pager.next # 0 => \A k \in DOMAIN g : g[k] <= pager.next
      /\ \A k \in DOMAIN s : \A l \in DOMAIN g : s[k] < g[l]
  BY <1>1, <1>2, <1>4, <1>6 DEF OrderInv, Ordered
<1>8. Len(s) + 1 <= x
  <2>1. CASE Len(s) = 0
    BY <1>4, <1>6, <2>1
  <2>2. CASE Len(s) # 0
    <3> DEFINE k == Len(s)
    <3>1. k \in DOMAIN s /\ k \in Nat
      BY <1>2, <2>2
    <3>2. s[k] \in Nat /\ k <= s[k] /\ s[k] < x /\ x \in Nat
      BY <1>4, <1>6, <1>7, <3>1
    <3> HIDE DEF k
    <3>3. k + 1 <= x
      BY <3>1, <3>2
    <3> QED BY <3>3 DEF k
  <2> QED BY <2>1, <2>2
<1>9. pager' \in Pagers
  <2>1. t \in Lists(MaxId)
    <3>1. Len(s) \in Nat /\ Len(s) + 1 <= x /\ x <= MaxId /\ MaxId \in Nat
      BY <1>2, <1>4, <1>6, <1>8, ListingAssumption
    <3>2. t \in Seq(Ids) /\ Len(t) = Len(s) + 1 /\ x \in Nat
      BY <1>4, <1>5, <1>6
    <3>3. Len(t) <= MaxId
      BY <3>1, <3>2
    <3> HIDE DEF t
    <3> QED BY <3>1, <3>2, <3>3, ListIsSeq
  <2>2. Tail(g) \in Lists(ServerPage)
    <3>1. Len(g) \in Nat /\ ServerPage \in Nat
      BY <1>2, LenProperties, ListingAssumption
    <3>2. Tail(g) \in Seq(Ids) /\ Len(Tail(g)) <= ServerPage
      BY <1>2, <1>4, <3>1
    <3> HIDE DEF g
    <3> QED BY <3>1, <3>2, ListIsSeq
  <2> QED BY <1>1, <2>1, <2>2 DEF Pagers
<1> HIDE DEF s, g, x, t
<1>10. OrderInv'
  <2>1. Ordered(t)
    <3> SUFFICES ASSUME NEW j \in DOMAIN t, NEW k \in DOMAIN t, j < k PROVE t[j] < t[k]
      BY DEF Ordered
    <3>1. k \in Nat /\ j \in DOMAIN s /\ t[j] = s[j]
      BY <1>2, <1>5
    <3> QED BY <1>5, <1>7, <3>1
  <2>2. \A k \in DOMAIN t : k <= t[k]
    BY <1>5, <1>7, <1>8
  <2>3. Ordered(Tail(g))
    <3> SUFFICES ASSUME NEW j \in DOMAIN Tail(g), NEW k \in DOMAIN Tail(g), j < k
                 PROVE  Tail(g)[j] < Tail(g)[k]
      BY DEF Ordered
    <3>1. j + 1 < k + 1
      BY <1>4, LenProperties
    <3> QED BY <1>4, <1>7, <3>1
  <2>4. \A k \in DOMAIN t : \A l \in DOMAIN Tail(g) : t[k] < Tail(g)[l]
    <3> SUFFICES ASSUME NEW k \in DOMAIN t, NEW l \in DOMAIN Tail(g)
                 PROVE  t[k] < Tail(g)[l]
      OBVIOUS
    <3>1. l + 1 \in DOMAIN g /\ Tail(g)[l] = g[l + 1] /\ 1 < l + 1
      BY <1>4, LenProperties
    <3> QED BY <1>4, <1>5, <1>7, <3>1
  <2>5. pager.next # 0 => /\ \A l \in DOMAIN Tail(g) : Tail(g)[l] <= pager.next
                          /\ \A k \in DOMAIN t : t[k] <= pager.next
    BY <1>1, <1>4, <1>5, <1>7 DEF OrderInv, s
  <2>6. pager.limit # NoLimit => Len(t) <= pager.limit
    BY <1>2, <1>5 DEF Full, s
  <2> QED BY <1>1, <1>3, <2>1, <2>2, <2>3, <2>4, <2>5, <2>6 DEF OrderInv, t
<1>11. CompleteInv'
  <2>1. ASSUME NEW i, Answered(i) PROVE Answered(i)'
    BY <1>3, <1>5, <2>1 DEF Answered, s, t
  <2>2. ASSUME NEW i, OnPage(i) PROVE Answered(i)' \/ OnPage(i)'
    <3>1. PICK l \in DOMAIN g : g[l] = i
      BY <2>2 DEF OnPage, g
    <3>2. CASE l = 1
      <4>1. Len(t) \in DOMAIN t /\ t[Len(t)] = i
        BY <1>2, <1>4, <1>5, <3>1, <3>2, LenProperties
      <4> QED BY <1>3, <4>1 DEF Answered, t
    <3>3. CASE l # 1
      <4>1. l - 1 \in DOMAIN Tail(g) /\ Tail(g)[l - 1] = i
        BY <1>4, <3>1, <3>3
      <4>2. pager'.page = Tail(g)
        BY <1>3 DEF g
      <4> QED BY <4>1, <4>2 DEF OnPage
    <3> QED BY <3>2, <3>3
  <2> QED BY <1>1, <1>3, <2>1, <2>2 DEF CompleteInv
<1> QED BY <1>1, <1>3, <1>9, <1>10, <1>11 DEF ListInv

\* The steps that answer nothing and fetch nothing.
LEMMA MoveStep ==
  ASSUME ListInv, \/ FetchFails \/ PageEnd \/ Resolve \/ GetMatch
                  \/ Yield /\ Full(pager)
  PROVE  ListInv'
<1>1. /\ pager \in Pagers /\ OrderInv /\ CompleteInv /\ stayed \subseteq present
      /\ present \subseteq Ids
      /\ pager.step \in {"get", "found"} => Len(pager.answered) = 1
  BY DEF ListInv
<1>2. UNCHANGED <<present, stayed>>
  BY DEF FetchFails, PageEnd, Resolve, GetMatch, Yield
<1>3. /\ pager.next \in Nat /\ pager.token \in Nat /\ pager.limit \in Nat \cup {NoLimit}
      /\ Len(pager.answered) \in Nat
      /\ \A k \in DOMAIN pager.answered : pager.answered[k] \in Nat
      /\ <<>> \in Lists(ServerPage) /\ DOMAIN <<>> = {}
  <2>1. <<>> \in Lists(ServerPage) /\ DOMAIN <<>> = {}
    BY EmptyList
  <2> QED BY <1>1, <2>1, PagerFields, ListingAssumption DEF Ids
<1>4. CASE FetchFails
  <2>1. pager' = [pager EXCEPT !.step = "raised"]
    BY <1>4 DEF FetchFails
  <2>2. /\ pager'.step = "raised" /\ pager'.page = pager.page /\ pager'.next = pager.next
        /\ pager'.answered = pager.answered /\ pager'.token = pager.token
        /\ pager'.limit = pager.limit /\ pager'.byName = pager.byName /\ pager' \in Pagers
    BY <1>1, <2>1 DEF Pagers
  <2> QED BY <1>1, <1>2, <2>2 DEF ListInv, OrderInv, CompleteInv
<1>5. CASE Yield /\ Full(pager)
  <2>1. pager' = [pager EXCEPT !.step = "done", !.page = <<>>]
    BY <1>5 DEF Yield
  <2>2. /\ pager'.step = "done" /\ pager'.page = <<>> /\ pager'.next = pager.next
        /\ pager'.answered = pager.answered /\ pager'.token = pager.token
        /\ pager'.limit = pager.limit /\ pager'.byName = pager.byName /\ pager' \in Pagers
    BY <1>1, <1>3, <2>1 DEF Pagers
  <2>3. Full(pager)'
    BY <1>5, <2>2 DEF Full
  <2>4. OrderInv'
    BY <1>1, <1>3, <2>2 DEF OrderInv, Ordered
  <2> QED BY <1>1, <1>2, <2>2, <2>3, <2>4 DEF ListInv, CompleteInv
<1>6. CASE PageEnd
  <2>1. /\ pager' = [pager EXCEPT !.step = IF IsLast(pager) THEN "done" ELSE "ask",
                                  !.token = pager.next]
        /\ pager.step = "page" /\ pager.page = <<>>
    BY <1>6 DEF PageEnd
  <2>2. /\ pager'.step = (IF IsLast(pager) THEN "done" ELSE "ask")
        /\ pager'.page = <<>> /\ pager'.next = pager.next
        /\ pager'.answered = pager.answered /\ pager'.token = pager.next
        /\ pager'.limit = pager.limit /\ pager'.byName = pager.byName /\ pager' \in Pagers
    BY <1>1, <2>1 DEF Pagers
  <2>3. OrderInv'
    <3>1. ~IsLast(pager) => pager.next # 0
      BY DEF IsLast
    <3>2. ~IsLast(pager) => \A k \in DOMAIN pager.answered : pager.answered[k] <= pager.next
      BY <1>1, <2>1, <3>1 DEF OrderInv
    <3> QED BY <1>1, <1>3, <2>1, <2>2, <3>2 DEF OrderInv, Ordered
  <2>4. CompleteInv'
    <3>1. ASSUME NEW i \in stayed, pager.next = 0 \/ i <= pager.next PROVE Answered(i)'
      <4>1. ~OnPage(i)
        BY <1>3, <2>1 DEF OnPage
      <4> QED BY <1>1, <2>1, <2>2, <3>1, <4>1 DEF CompleteInv, Answered
    <3>2. Full(pager') <=> Full(pager)
      BY <2>2 DEF Full
    <3> QED BY <1>2, <2>2, <3>1, <3>2 DEF CompleteInv, IsLast
  <2> QED BY <1>1, <1>2, <2>2, <2>3, <2>4 DEF ListInv
<1>7. CASE Resolve \/ GetMatch
  <2>1. PICK step \in {"get", "found", "raised"} : pager' = [pager EXCEPT !.step = step]
    BY <1>7 DEF Resolve, GetMatch
  <2>2. /\ pager'.step = step /\ pager'.page = pager.page /\ pager'.next = pager.next
        /\ pager'.answered = pager.answered /\ pager'.token = pager.token
        /\ pager'.limit = pager.limit /\ pager'.byName = pager.byName /\ pager' \in Pagers
    BY <1>1, <2>1 DEF Pagers
  <2>3. OrderInv'
    BY <1>1, <2>2 DEF OrderInv
  <2>4. step # "raised" => /\ Len(pager.answered) = 1
                           /\ \A i \in stayed : Answered(i)
    <3>1. CASE Resolve
      <4>1. step # "raised" => Len(pager.answered) = 1
        BY <1>1, <2>2, <3>1 DEF Resolve, Pagers
      <4>2. pager.limit = 2 /\ 2 # NoLimit
        BY <1>1, <3>1, ListingAssumption DEF Resolve, OrderInv
      <4>3. step # "raised" => ~Full(pager)
        BY <4>1, <4>2 DEF Full
      <4> QED BY <1>1, <3>1, <4>1, <4>3 DEF Resolve, CompleteInv
    <3>2. CASE GetMatch
      BY <1>1, <3>2 DEF GetMatch, CompleteInv
    <3> QED BY <1>7, <3>1, <3>2
  <2>5. CompleteInv'
    BY <1>2, <2>2, <2>4 DEF CompleteInv, Answered
  <2> QED BY <1>1, <1>2, <2>2, <2>3, <2>4, <2>5 DEF ListInv
<1> QED BY <1>4, <1>5, <1>6, <1>7

LEMMA PagerStep ==
  ASSUME ListInv, Pager
  PROVE  ListInv'
BY ListStart, FetchStep, YieldStep, MoveStep DEF Pager

\* The collection changes, and the iterator does not move.
LEMMA CollectionStep ==
  ASSUME ListInv, pager' = pager, present' \subseteq Ids,
         stayed' \subseteq stayed, stayed' \subseteq present'
  PROVE  ListInv'
BY DEF ListInv, OrderInv, CompleteInv, Answered, OnPage

-----------------------------------------------------------------------------
(* Schedules, what is read of them and what is asked.                      *)

LEMMA AnyIsValid == AnySchedule \in Schedules /\ AnySchedule \in Messages /\ Valid(AnySchedule)
<1>1. AnySchedule \in Schedules
  BY SchedulesAssumption DEF AnySchedule
<1> QED BY <1>1, SchedulesAssumption DEF Messages, Valid

LEMMA ScheduleIsValid ==
  ASSUME NEW s \in Schedules PROVE s \in Messages /\ Valid(s)
BY SchedulesAssumption DEF Messages, Valid

LEMMA IdsAreThere == 1 \in Ids /\ Edited \subseteq Ids
BY SchedulesAssumption, ListingAssumption DEF Ids

\* The conversions give values, and messages.
LEMMA ValueTypes ==
  ASSUME NEW m \in Messages
  PROVE  /\ ValueOf(m) \in Values
         /\ ValueOf(m).timing = TimingFromProto(m.timing)
         /\ ValueOf(m).spec = JobFromProto(m.spec)
<1>1. m.timing \in TimingProtos /\ m.spec \in JobProtos
  BY DEF Messages
<1>2. /\ DispositionOf(m.spec.disposition) \in Dispositions
      /\ OverlapOf(m.timing.overlap) \in Overlaps
  BY DEF DispositionOf, Dispositions, OverlapOf, Overlaps
<1>3. TimingFromProto(m.timing) \in Timings
  BY <1>1, <1>2 DEF TimingFromProto, Timings, TimingProtos
<1>4. JobFromProto(m.spec) \in JobSpecs
  BY <1>1, <1>2 DEF JobFromProto, JobSpecs, JobProtos
<1> QED BY <1>3, <1>4 DEF ValueOf, Values

LEMMA JobProtoType ==
  ASSUME NEW s \in JobSpecs PROVE JobToProto(s) \in JobProtos
<1>1. DispositionCode(s.disposition) \in Codes
  BY DEF DispositionCode, Codes
<1> QED BY <1>1, JobDataAssumption DEF JobToProto, JobSpecs, JobProtos

LEMMA TimingProtoType ==
  ASSUME NEW t \in Timings PROVE TimingToProto(t) \in TimingProtos
<1>1. OverlapCode(t.overlap) \in Codes
  BY DEF OverlapCode, Codes
<1> QED BY <1>1 DEF TimingToProto, Timings, TimingProtos

\* The checks are what TypeOK says of a stored schedule.
LEMMA ValidMeansOne ==
  ASSUME NEW m \in Messages, Valid(m)
  PROVE  OneTrigger(m.timing) /\ OneTarget(m.spec)
<1>1. OneTrigger(m.timing)
  BY DEF Valid, TimingIsValid, Set, OneTrigger, OneOf
<1>2. OneTarget(m.spec)
  BY DEF Valid, JobIsValid, Set, OneTarget, OneOf
<1> QED BY <1>1, <1>2

\* No call, with its Boolean field by a name.
LEMMA NoCallIs ==
  \E b \in BOOLEAN :
     /\ b = FALSE
     /\ NoCall = [op |-> "none", step |-> "idle", id |-> 1, request |-> AnySchedule,
                  paused |-> b, attempts |-> 0, done |-> 0, run |-> 0]
<1>1. PICK b \in BOOLEAN : b = FALSE
  OBVIOUS
<1>2. NoCall = [op |-> "none", step |-> "idle", id |-> 1, request |-> AnySchedule,
                paused |-> b, attempts |-> 0, done |-> 0, run |-> 0]
  BY <1>1 DEF NoCall
<1> QED BY <1>1, <1>2

LEMMA NoCallFields ==
  /\ NoCall \in CallRecords
  /\ NoCall.op = "none" /\ NoCall.step = "idle" /\ NoCall.attempts = 0 /\ NoCall.done = 0
<1>1. PICK b \in BOOLEAN :
         NoCall = [op |-> "none", step |-> "idle", id |-> 1, request |-> AnySchedule,
                   paused |-> b, attempts |-> 0, done |-> 0, run |-> 0]
  BY NoCallIs
<1>2. AnySchedule \in Messages /\ 1 \in Ids
  BY AnyIsValid, IdsAreThere
<1>3. 0 \in 0..MaxRetries /\ 0 \in 0..(MaxRetries + 1) /\ 0 \in 0..MaxRuns
  BY SchedulesAssumption
<1> QED BY <1>1, <1>2, <1>3 DEF CallRecords

\* What a call's first step leaves: a record of its own, nothing done.
Begun(op, i, m) ==
    /\ call' \in CallRecords /\ call'.op = op /\ call'.step = "sent" /\ call'.id = i
    /\ call'.request = m /\ call'.done = 0 /\ call'.attempts = 0

RestInv == Types /\ ValidInv /\ CallInv

-----------------------------------------------------------------------------
(* The steps.                                                              *)

\* Only the schedule i changes, and stays a valid one.
StoredAt(i) ==
    /\ stored' \in [Ids -> Messages]
    /\ \A j \in Ids \ {i} : stored'[j] = stored[j]
    /\ Valid(stored'[i])

LEMMA StoredIs ==
  ASSUME stored \in [Ids -> Messages], NEW i \in Ids, NEW m \in Messages, Valid(m),
         stored' = [stored EXCEPT ![i] = m]
  PROVE  StoredAt(i) /\ stored'[i] = m
BY DEF StoredAt

LEMMA PausedIs ==
  ASSUME stored \in [Ids -> Messages], NEW i \in Ids, NEW b \in BOOLEAN, Valid(stored[i]),
         stored' = [stored EXCEPT ![i].timing.paused = b]
  PROVE  StoredAt(i)
<1> DEFINE m == [stored[i] EXCEPT !.timing.paused = b]
<1>1. m \in Messages /\ Valid(m)
  <2>1. stored[i] \in Messages /\ stored[i].timing \in TimingProtos
    BY DEF Messages
  <2> DEFINE t == [stored[i].timing EXCEPT !.paused = b]
  <2>2. /\ t \in TimingProtos /\ t.cron = stored[i].timing.cron
        /\ t.interval = stored[i].timing.interval /\ t.runAt = stored[i].timing.runAt
    BY <2>1 DEF TimingProtos
  <2> HIDE DEF t
  <2>3. m = [stored[i] EXCEPT !.timing = t]
    BY <2>1 DEF t, Messages
  <2>4. m \in Messages /\ m.timing = t /\ m.spec = stored[i].spec
    BY <2>1, <2>2, <2>3 DEF Messages
  <2> QED BY <2>2, <2>4 DEF Valid, TimingIsValid
<1>2. stored' = [stored EXCEPT ![i] = m]
  OBVIOUS
<1> HIDE DEF m
<1> QED BY <1>1, <1>2, StoredIs

\* What is held stays, but for the note that it has been changed.
LEMMA TouchIs ==
  ASSUME held \in Held, NEW i, Touch(i)
  PROVE  /\ held' \in Held /\ UNCHANGED <<held.of, held.id, held.raw, held.value>>
         /\ ~held'.touched => ~held.touched /\ ~(held.of = "schedule" /\ held.id = i)
BY DEF Touch, Held

LEMMA OwnIs ==
  ASSUME held \in Held, NEW i, Own(i)
  PROVE  /\ held' \in Held /\ UNCHANGED <<held.of, held.id, held.raw, held.value>>
         /\ ~held'.touched =>
               ~held.touched /\ held.of = "schedule" /\ held.id = i /\ call.op = "update"
BY DEF Own, Held

\* Another client's step.
LEMMA OthersStep ==
  ASSUME RestInv, NEW i \in Ids, StoredAt(i), Touch(i), UNCHANGED <<mode, call, runs>>
  PROVE  RestInv'
<1>1. /\ Types /\ ValidInv /\ CallInv /\ held \in Held
  BY DEF RestInv, Types
<1>2. /\ held' \in Held /\ UNCHANGED <<held.of, held.id, held.raw, held.value>>
      /\ ~held'.touched => ~held.touched /\ ~(held.of = "schedule" /\ held.id = i)
  BY <1>1, TouchIs
<1>3. Types' /\ ValidInv'
  BY <1>1, <1>2 DEF Types, ValidInv, StoredAt
<1>4. CallInv'
  <2>1. call.id \in Ids
    BY <1>1 DEF Types, CallRecords
  <2>2. call.op = "update" /\ call.done > 0 /\ ~held'.touched => stored'[call.id] = call.request
    BY <1>1, <1>2, <2>1 DEF CallInv, StoredAt
  <2> QED BY <1>1, <1>2, <2>2 DEF CallInv
<1> QED BY <1>3, <1>4 DEF RestInv

\* The schedule's time comes.
LEMMA FireStep ==
  ASSUME RestInv, NEW i \in Ids, Fire(i), UNCHANGED mode
  PROVE  RestInv'
<1>1. /\ Types /\ ValidInv /\ CallInv /\ UNCHANGED <<stored, held, call>>
      /\ runs \in Seq(JobProtos) /\ stored[i].spec \in JobProtos
      /\ runs' = Append(runs, stored[i].spec)
  BY DEF RestInv, Types, Fire, Fired, Messages
<1>2. /\ runs' \in Seq(JobProtos)
      /\ \A k \in DOMAIN runs : k \in DOMAIN runs' /\ runs'[k] = runs[k]
  BY <1>1, AppendProperties, LenProperties
<1>3. CallInv'
  BY <1>1, <1>2 DEF CallInv
<1> QED BY <1>1, <1>2, <1>3 DEF RestInv, Types, ValidInv

LEMMA NothingHeldIs ==
  \E b \in BOOLEAN :
     NothingHeld = [of |-> "none", id |-> 1, raw |-> AnySchedule,
                    value |-> ValueOf(AnySchedule), touched |-> b]
<1>1. PICK b \in BOOLEAN : b = FALSE
  OBVIOUS
<1>2. NothingHeld = [of |-> "none", id |-> 1, raw |-> AnySchedule,
                     value |-> ValueOf(AnySchedule), touched |-> b]
  BY <1>1 DEF NothingHeld
<1> QED BY <1>2

LEMMA HeldIs ==
  ASSUME NEW of \in {"none", "schedule", "run"}, NEW i \in Ids, NEW raw \in Messages,
         NEW b \in BOOLEAN, NEW h,
         h = [of |-> of, id |-> i, raw |-> raw, value |-> ValueOf(raw), touched |-> b]
  PROVE  h \in Held /\ h.value = ValueOf(h.raw)
<1>1. ValueOf(raw) \in Values
  BY ValueTypes
<1> QED BY <1>1 DEF Held

\* The program reads.
LEMMA ReadStep ==
  ASSUME RestInv, UNCHANGED mode,
         (\E i \in Ids : GetSchedule(i)) \/ (\E r \in DOMAIN runs : GetRun(r))
  PROVE  RestInv'
<1>1. /\ Types /\ ValidInv /\ CallInv /\ stored \in [Ids -> Messages] /\ runs \in Seq(JobProtos)
  BY DEF RestInv, Types
<1>2. UNCHANGED <<stored, runs, call>> /\ call.step = "idle"
  BY DEF GetSchedule, GetRun
<1>3. held' \in Held /\ held'.value = ValueOf(held'.raw)
  <2>1. ASSUME NEW i \in Ids, GetSchedule(i)
        PROVE  held' \in Held /\ held'.value = ValueOf(held'.raw)
    <3>1. stored[i] \in Messages
      BY <1>1
    <3>2. PICK b \in BOOLEAN :
             NothingHeld = [of |-> "none", id |-> 1, raw |-> AnySchedule,
                            value |-> ValueOf(AnySchedule), touched |-> b]
      BY NothingHeldIs
    <3>3. held' = [of |-> "schedule", id |-> i, raw |-> stored[i],
                   value |-> ValueOf(stored[i]), touched |-> b]
      BY <2>1, <3>2 DEF GetSchedule
    <3> QED BY <3>1, <3>3, HeldIs
  <2>2. ASSUME NEW r \in DOMAIN runs, GetRun(r)
        PROVE  held' \in Held /\ held'.value = ValueOf(held'.raw)
    <3> DEFINE raw == [AnySchedule EXCEPT !.spec = runs[r]]
    <3>1. raw \in Messages
      BY <1>1, AnyIsValid, ElementOfSeq, LenProperties DEF Messages
    <3>2. 1 \in Ids
      BY IdsAreThere
    <3>3. PICK b \in BOOLEAN :
             NothingHeld = [of |-> "none", id |-> 1, raw |-> AnySchedule,
                            value |-> ValueOf(AnySchedule), touched |-> b]
      BY NothingHeldIs
    <3>4. held' = [of |-> "run", id |-> 1, raw |-> raw, value |-> ValueOf(raw),
                   touched |-> b]
      BY <2>2, <3>3 DEF GetRun
    <3> HIDE DEF raw
    <3> QED BY <3>1, <3>2, <3>4, HeldIs
  <2> QED BY <2>1, <2>2
<1>4. call.op = "none" /\ call.done = 0
  BY <1>1, <1>2, NoCallFields DEF CallInv
<1>5. CallInv'
  BY <1>1, <1>2, <1>3, <1>4 DEF CallInv
<1> QED BY <1>1, <1>2, <1>3, <1>5 DEF RestInv, Types, ValidInv

\* The program asks for something: a new call, of what is held.
LEMMA BegunStep ==
  ASSUME RestInv, UNCHANGED <<mode, stored, runs, held>>,
         NEW op \in {"rerun"} \cup ScheduleOps, NEW i \in Ids, NEW m \in Messages,
         Begun(op, i, m),
         op = "update" =>
            /\ Valid(m) /\ held.of = "schedule" /\ held.id = i
            /\ m.spec = JobToProto(held.value.spec)
            /\ m.timing = [TimingToProto(held.value.timing) EXCEPT
                              !.cron = m.timing.cron, !.interval = m.timing.interval,
                              !.runAt = m.timing.runAt],
         op = "rerun" =>
            m.spec = [JobToProto(held.value.spec) EXCEPT !.rest = m.spec.rest]
  PROVE  RestInv'
<1>1. Types /\ ValidInv /\ CallInv
  BY DEF RestInv
<1>2. Types' /\ ValidInv'
  BY <1>1 DEF Types, ValidInv, Begun
<1>3. CallInv'
  BY <1>1 DEF CallInv, Begun
<1> QED BY <1>2, <1>3 DEF RestInv

LEMMA AskStep ==
  ASSUME RestInv, UNCHANGED mode,
         \/ \E c, n, a \in Data : Update(c, n, a)
         \/ \E d \in Data : Rerun(d)
         \/ \E i \in Ids, b \in BOOLEAN : Pause(i, b)
         \/ \E i \in Ids, op \in {"trigger", "delete"} : Ask(op, i)
  PROVE  RestInv'
<1>1. /\ Types /\ CallInv /\ held \in Held /\ held.id \in Ids
      /\ held.raw \in Messages /\ held.value \in Values /\ held.raw.timing \in TimingProtos
      /\ held.value.timing \in Timings /\ held.value.spec \in JobSpecs
  BY DEF RestInv, Types, Held, Values, Messages
<1>2. UNCHANGED <<stored, runs, held>>
  BY DEF Update, Rerun, Pause, Ask
<1>3. PICK none \in BOOLEAN :
         NoCall = [op |-> "none", step |-> "idle", id |-> 1, request |-> AnySchedule,
                   paused |-> none, attempts |-> 0, done |-> 0, run |-> 0]
  BY NoCallIs
<1>4. 0 \in 0..MaxRetries /\ 0 \in 0..(MaxRetries + 1) /\ 0 \in 0..MaxRuns
  BY SchedulesAssumption
<1>5. ASSUME NEW op \in {"rerun"} \cup ScheduleOps, NEW i \in Ids, NEW m \in Messages,
             NEW b \in BOOLEAN,
             call' = [op |-> op, step |-> "sent", id |-> i, request |-> m, paused |-> b,
                      attempts |-> 0, done |-> 0, run |-> 0]
      PROVE  Begun(op, i, m)
  <2>1. call' \in CallRecords
    BY <1>4, <1>5 DEF CallRecords
  <2> QED BY <1>5, <2>1 DEF Begun
<1>6. ASSUME NEW c \in Data, NEW n \in Data, NEW a \in Data, Update(c, n, a) PROVE RestInv'
  <2> DEFINE t == [held.value.timing EXCEPT !.cron = c, !.interval = n, !.runAt = a]
             s == held.value.spec
             m == [timing |-> TimingToProto(t), spec |-> JobToProto(s)]
  <2>1. /\ t \in Timings /\ t.cron = c /\ t.interval = n /\ t.runAt = a
        /\ t.overlap = held.value.timing.overlap /\ t.paused = held.value.timing.paused
        /\ t.rest = held.value.timing.rest
    BY <1>1 DEF Timings
  <2>2. /\ TimingIsValid(t) /\ JobIsValid(s) /\ held.of = "schedule"
        /\ Request("update", held.id, TimingToProto(t), JobToProto(s))
    BY <1>6 DEF Update
  <2> HIDE DEF t, s
  <2>3. m \in Messages
    BY <1>1, <2>1, JobProtoType, TimingProtoType DEF Messages, s
  <2>4. Valid(m)
    BY <1>1, <2>1, <2>2, ValidStaysValid DEF Valid, s
  <2>5. m.timing = [TimingToProto(held.value.timing) EXCEPT
                       !.cron = m.timing.cron, !.interval = m.timing.interval,
                       !.runAt = m.timing.runAt]
    <3> DEFINE o == held.value.timing
    <3>1. PICK v, p, r : v = OverlapCode(o.overlap) /\ p = o.paused /\ r = o.rest
      OBVIOUS
    <3>2. m.timing = [cron |-> c, interval |-> n, runAt |-> a, overlap |-> v,
                      paused |-> p, rest |-> r]
      BY <2>1, <3>1 DEF TimingToProto
    <3>3. PICK x, y, z : TimingToProto(o) = [cron |-> x, interval |-> y, runAt |-> z,
                                             overlap |-> v, paused |-> p, rest |-> r]
      BY <3>1 DEF TimingToProto
    <3> HIDE DEF m
    <3> DEFINE q == TimingToProto(o)
    <3>4. q = [cron |-> x, interval |-> y, runAt |-> z, overlap |-> v, paused |-> p,
               rest |-> r]
      BY <3>3
    <3> HIDE DEF q
    <3>5. m.timing.cron = c /\ m.timing.interval = n /\ m.timing.runAt = a
      BY <3>2
    <3> DEFINE q1 == [q EXCEPT !.cron = c]
               q2 == [q1 EXCEPT !.interval = n]
    <3>6. q1 = [cron |-> c, interval |-> y, runAt |-> z, overlap |-> v, paused |-> p,
                rest |-> r]
      BY <3>4
    <3> HIDE DEF q1
    <3>7. q2 = [cron |-> c, interval |-> n, runAt |-> z, overlap |-> v, paused |-> p,
                rest |-> r]
      BY <3>6
    <3> HIDE DEF q2
    <3>8. m.timing = [q2 EXCEPT !.runAt = a]
      BY <3>2, <3>7
    <3> QED BY <3>5, <3>8, Zenon DEF q, q1, q2
  <2>6. call' = [op |-> "update", step |-> "sent", id |-> held.id, request |-> m,
                 paused |-> none, attempts |-> 0, done |-> 0, run |-> 0]
    BY <1>3, <2>2 DEF Request
  <2>7. m.spec = JobToProto(held.value.spec)
    BY DEF s
  <2> HIDE DEF m
  <2>8. Begun("update", held.id, m)
    BY <1>1, <1>5, <2>3, <2>6 DEF ScheduleOps
  <2> QED BY <1>1, <1>2, <2>2, <2>3, <2>4, <2>5, <2>7, <2>8, BegunStep DEF ScheduleOps
<1>7. ASSUME NEW d \in Data, Rerun(d) PROVE RestInv'
  <2> DEFINE s == [held.value.spec EXCEPT !.rest = d]
             m == [timing |-> held.raw.timing, spec |-> JobToProto(s)]
  <2>1. s \in JobSpecs /\ s.rest = d
    BY <1>1 DEF JobSpecs
  <2>2. Request("rerun", held.id, held.raw.timing, JobToProto(s))
    BY <1>7 DEF Rerun
  <2>3. m.spec = [JobToProto(held.value.spec) EXCEPT !.rest = m.spec.rest]
    BY <1>1 DEF JobToProto, JobSpecs
  <2> HIDE DEF s
  <2>4. m \in Messages
    BY <1>1, <2>1, JobProtoType DEF Messages
  <2>5. call' = [op |-> "rerun", step |-> "sent", id |-> held.id, request |-> m,
                 paused |-> none, attempts |-> 0, done |-> 0, run |-> 0]
    BY <1>3, <2>2 DEF Request
  <2> HIDE DEF m
  <2>6. Begun("rerun", held.id, m)
    BY <1>1, <1>5, <2>4, <2>5
  <2> QED BY <1>1, <1>2, <2>3, <2>4, <2>6, BegunStep
<1>8. ASSUME NEW i \in Ids, NEW b \in BOOLEAN, Pause(i, b) PROVE RestInv'
  <2>1. call' = [op |-> "pause", step |-> "sent", id |-> i, request |-> AnySchedule,
                 paused |-> b, attempts |-> 0, done |-> 0, run |-> 0]
    BY <1>3, <1>8 DEF Pause
  <2>2. "pause" \in {"rerun"} \cup ScheduleOps
    BY DEF ScheduleOps
  <2>3. Begun("pause", i, AnySchedule)
    BY <1>5, <2>1, <2>2, AnyIsValid
  <2> QED BY <1>2, <2>2, <2>3, AnyIsValid, BegunStep
<1>9. ASSUME NEW i \in Ids, NEW op \in {"trigger", "delete"}, Ask(op, i) PROVE RestInv'
  <2>1. call' = [op |-> op, step |-> "sent", id |-> i, request |-> AnySchedule,
                 paused |-> none, attempts |-> 0, done |-> 0, run |-> 0]
    BY <1>3, <1>9 DEF Ask
  <2>2. op \in {"rerun"} \cup ScheduleOps
    BY DEF ScheduleOps
  <2>3. Begun(op, i, AnySchedule)
    BY <1>5, <2>1, <2>2, AnyIsValid
  <2> QED BY <1>2, <2>2, <2>3, AnyIsValid, BegunStep
<1> QED BY <1>6, <1>7, <1>8, <1>9

\* What the service does with the request of a call that is not done for good.
LEMMA DoIs ==
  ASSUME RestInv, ListInv, Do
  PROVE  /\ stored' \in [Ids -> Messages] /\ \A i \in Ids : Valid(stored'[i])
         /\ held' \in Held /\ UNCHANGED <<held.of, held.id, held.raw, held.value>>
         /\ runs' \in Seq(JobProtos)
         /\ call.op = "update" =>
               (~held'.touched => stored'[call.id] = call.request)
         /\ call.op = "rerun" =>
               /\ Len(runs') \in DOMAIN runs' /\ runs'[Len(runs')] = call.request.spec
               /\ Len(runs') <= MaxRuns
<1> DEFINE i == call.id
<1>1. /\ Types /\ ValidInv /\ stored \in [Ids -> Messages] /\ held \in Held
      /\ runs \in Seq(JobProtos) /\ i \in Ids /\ call.request \in Messages
      /\ call.request.spec \in JobProtos /\ stored[i].spec \in JobProtos
      /\ call.paused \in BOOLEAN
      /\ \A j \in Ids : Valid(stored[j])
  BY DEF RestInv, Types, CallRecords, Messages, ValidInv
<1>2. CASE UNCHANGED <<stored, held>> /\ call.op = "rerun" /\ Len(runs) < MaxRuns
           /\ runs' = Fired(call.request.spec)
  BY <1>1, <1>2, AppendProperties, LenProperties, SchedulesAssumption DEF Fired
<1>3. CASE UNCHANGED <<stored, held>> /\ call.op = "trigger" /\ runs' = Fired(stored[i].spec)
  BY <1>1, <1>3, AppendProperties DEF Fired
<1>4. CASE StoredAt(i) /\ Own(i) /\ UNCHANGED runs /\ call.op \notin {"rerun", "update"}
  BY <1>1, <1>4, OwnIs DEF StoredAt
<1>5. CASE call.op = "update" /\ stored' = [stored EXCEPT ![i] = call.request] /\ Own(i)
           /\ UNCHANGED runs
  <2>1. Valid(call.request)
    BY <1>1, <1>5 DEF ValidInv
  <2>2. StoredAt(i) /\ stored'[i] = call.request
    BY <1>1, <1>5, <2>1, StoredIs
  <2> QED BY <1>1, <1>5, <2>2, OwnIs DEF StoredAt
<1>6. CASE call.op = "pause" /\ stored' = [stored EXCEPT ![i].timing.paused = call.paused]
           /\ Own(i) /\ UNCHANGED runs
  <2>1. StoredAt(i)
    BY <1>1, <1>6, PausedIs
  <2> QED BY <1>4, <1>6, <2>1
<1>7. CASE call.op = "delete" /\ stored' = [stored EXCEPT ![i] = AnySchedule]
           /\ Own(i) /\ UNCHANGED runs
  <2>1. StoredAt(i)
    BY <1>1, <1>7, AnyIsValid, StoredIs
  <2> QED BY <1>4, <1>7, <2>1
<1> QED BY <1>2, <1>3, <1>5, <1>6, <1>7 DEF Do

LEMMA ServeStep ==
  ASSUME RestInv, ListInv, Serve, UNCHANGED mode
  PROVE  RestInv'
<1>1. /\ Types /\ ValidInv /\ CallInv /\ call \in CallRecords /\ call.step = "sent" /\ Do
      /\ call.done <= call.attempts /\ call.attempts \in 0..MaxRetries /\ call.done \in Nat
  BY SchedulesAssumption DEF RestInv, Types, Serve, CallInv, CallRecords
<1>2. /\ stored' \in [Ids -> Messages] /\ \A i \in Ids : Valid(stored'[i])
      /\ held' \in Held /\ UNCHANGED <<held.of, held.id, held.raw, held.value>>
      /\ runs' \in Seq(JobProtos)
      /\ call.op = "update" => (~held'.touched => stored'[call.id] = call.request)
      /\ call.op = "rerun" =>
            /\ Len(runs') \in DOMAIN runs' /\ runs'[Len(runs')] = call.request.spec
            /\ Len(runs') <= MaxRuns
  BY <1>1, DoIs
<1>3. CASE call' = NoCall
  <2>1. Types' /\ ValidInv'
    BY <1>1, <1>2, <1>3, NoCallFields DEF Types, ValidInv
  <2>2. CallInv'
    BY <1>1, <1>2, <1>3, NoCallFields DEF CallInv
  <2> QED BY <2>1, <2>2 DEF RestInv
<1>4. CASE call' # NoCall
  <2> DEFINE run == IF call.op = "rerun" THEN Len(runs') ELSE 0
  <2>1. PICK step \in {"sent", "answered"}, attempts \in 0..MaxRetries :
           /\ call' = [[call EXCEPT !.done = @ + 1, !.run = run] EXCEPT
                          !.step = step, !.attempts = attempts]
           /\ step = "sent" => attempts = call.attempts + 1
    <3> DEFINE did == [call EXCEPT !.done = @ + 1, !.run = run]
    <3>1. did.step = "sent" /\ did.attempts = call.attempts
      BY <1>1 DEF CallRecords
    <3>2. \/ call' = [did EXCEPT !.step = "answered"]
          \/ call.attempts < MaxRetries /\ call' = [did EXCEPT !.attempts = call.attempts + 1]
      BY <1>1, <1>4, <3>1 DEF Serve, Return
    <3>3. CASE call' = [did EXCEPT !.step = "answered"]
      <4>1. call' = [did EXCEPT !.step = "answered", !.attempts = call.attempts]
        BY <1>1, <3>1, <3>3 DEF CallRecords
      <4> QED BY <1>1, <4>1
    <3>4. CASE call.attempts < MaxRetries /\ call' = [did EXCEPT !.attempts = call.attempts + 1]
      <4>1. call' = [did EXCEPT !.step = "sent", !.attempts = call.attempts + 1]
        BY <1>1, <3>1, <3>4 DEF CallRecords
      <4>2. call.attempts + 1 \in 0..MaxRetries
        BY <1>1, <3>4, SchedulesAssumption
      <4> QED BY <4>1, <4>2
    <3> QED BY <3>2, <3>3, <3>4
  <2>2. run \in 0..MaxRuns
    <3>1. call.op = "rerun" => Len(runs') \in Nat
      BY <1>2, LenProperties
    <3> QED BY <1>2, <3>1, SchedulesAssumption
  <2> HIDE DEF run
  <2>3. call.done + 1 \in 0..(MaxRetries + 1)
    BY <1>1, SchedulesAssumption
  <2>4. /\ call'.op = call.op /\ call'.id = call.id /\ call'.request = call.request
        /\ call'.step = step /\ call'.attempts = attempts /\ call'.done = call.done + 1
        /\ call'.run = run /\ call' \in CallRecords
    BY <1>1, <2>1, <2>2, <2>3 DEF CallRecords
  <2>5. call'.step = "sent" => call'.done <= call'.attempts
    BY <1>1, <2>1, <2>4
  <2>6. call'.done > 0 /\ call'.step # "idle"
    BY <1>1, <2>4
  <2>7. CallInv'
    BY <1>1, <1>2, <2>4, <2>5, <2>6 DEF CallInv, run
  <2>8. Types' /\ ValidInv'
    BY <1>1, <1>2, <2>4 DEF Types, ValidInv
  <2> QED BY <2>7, <2>8 DEF RestInv
<1> QED BY <1>3, <1>4

\* A request that is lost, joined to the first, or answered.
LEMMA EndStep ==
  ASSUME RestInv, Lose \/ Joined \/ Finish, UNCHANGED mode
  PROVE  RestInv'
<1>1. /\ Types /\ ValidInv /\ CallInv /\ call \in CallRecords
      /\ UNCHANGED <<stored, runs, held>>
  BY DEF RestInv, Types, Lose, Joined, Finish
<1>2. CASE call' = NoCall
  <2>1. Types' /\ ValidInv'
    BY <1>1, <1>2, NoCallFields DEF Types, ValidInv
  <2>2. CallInv'
    BY <1>1, <1>2, NoCallFields DEF CallInv
  <2> QED BY <2>1, <2>2 DEF RestInv
<1>3. CASE Lose /\ call.attempts < MaxRetries /\ call' = [call EXCEPT !.attempts = @ + 1]
  <2>1. call.attempts + 1 \in 0..MaxRetries /\ call.attempts \in Nat /\ call.done \in Nat
    BY <1>1, <1>3, SchedulesAssumption DEF CallRecords
  <2>2. /\ call'.op = call.op /\ call'.id = call.id /\ call'.request = call.request
        /\ call'.step = call.step /\ call'.attempts = call.attempts + 1
        /\ call'.done = call.done /\ call'.run = call.run /\ call' \in CallRecords
        /\ call.step = "sent"
    BY <1>1, <1>3, <2>1 DEF CallRecords, Lose
  <2>3. call'.step = "sent" /\ call'.done <= call'.attempts
    BY <1>1, <2>1, <2>2 DEF CallInv
  <2>4. CallInv'
    BY <1>1, <2>2, <2>3 DEF CallInv
  <2> QED BY <1>1, <2>2, <2>4 DEF RestInv, Types, ValidInv
<1>4. CASE Joined
  <2>1. /\ call'.op = call.op /\ call'.id = call.id /\ call'.request = call.request
        /\ call'.step = "answered" /\ call'.attempts = call.attempts
        /\ call'.done = call.done /\ call'.run = call.run /\ call' \in CallRecords
        /\ call.step = "sent" /\ call.done > 0
    BY <1>1, <1>4 DEF CallRecords, Joined
  <2> QED BY <1>1, <2>1 DEF RestInv, Types, ValidInv, CallInv
<1> QED BY <1>2, <1>3, <1>4 DEF Lose, Joined, Finish, Return

LEMMA RestInit == Init => RestInv
<1> SUFFICES ASSUME Init PROVE RestInv
  OBVIOUS
<1>1. /\ mode \in {"iterate", "edit"} /\ stored = [i \in Ids |-> AnySchedule]
      /\ runs = <<>> /\ held = NothingHeld /\ call = NoCall
  BY DEF Init
<1>2. held \in Held /\ held.value = ValueOf(held.raw)
  <2>1. PICK b \in BOOLEAN :
           NothingHeld = [of |-> "none", id |-> 1, raw |-> AnySchedule,
                          value |-> ValueOf(AnySchedule), touched |-> b]
    BY NothingHeldIs
  <2> QED BY <1>1, <2>1, HeldIs, AnyIsValid, IdsAreThere
<1>3. Types
  BY <1>1, <1>2, AnyIsValid, NoCallFields DEF Types
<1>4. ValidInv
  BY <1>1, AnyIsValid, NoCallFields DEF ValidInv
<1>5. CallInv
  BY <1>1, <1>2, NoCallFields DEF CallInv
<1> QED BY <1>3, <1>4, <1>5 DEF RestInv

LEMMA ListInit == Init => ListInv
<1> SUFFICES ASSUME Init PROVE ListInv
  OBVIOUS
<1>1. present \subseteq Ids /\ stayed = present
  BY DEF Init, ListingInit
<1>2. PICK l \in Limits : pager = NoPager(l)
  BY DEF Init, ListingInit
<1>3. PICK b \in BOOLEAN : b = FALSE
  OBVIOUS
<1>4. pager = [step |-> "idle", byName |-> b, limit |-> l, token |-> 0,
               page |-> <<>>, next |-> 0, answered |-> <<>>]
  BY <1>2, <1>3 DEF NoPager
<1>5. pager \in Pagers
  <2>1. 0 \in 0..MaxId
    BY ListingAssumption
  <2> QED BY <1>4, <2>1, EmptyList DEF Pagers
<1>6. OrderInv
  <2>1. l # NoLimit => 0 <= l
    BY ListingAssumption
  <2> QED BY <1>3, <1>4, <2>1, EmptyList DEF OrderInv, Ordered
<1>7. CompleteInv
  BY <1>4 DEF CompleteInv
<1> QED BY <1>1, <1>4, <1>5, <1>6, <1>7 DEF ListInv

LEMMA RestStep ==
  ASSUME RestInv, ListInv, [Next]_vars
  PROVE  RestInv'
<1>1. /\ stored \in [Ids -> Messages] /\ present \subseteq Ids
      /\ \A i \in Ids : Valid(stored[i]) /\ stored[i].timing.paused \in BOOLEAN
  BY DEF RestInv, Types, ValidInv, ListInv, Messages, TimingProtos
<1>2. ASSUME NEW i \in Ids, NEW s \in Schedules, OtherCreates(i, s), UNCHANGED mode
      PROVE  RestInv'
  <2>1. StoredAt(i)
    BY <1>1, <1>2, ScheduleIsValid, StoredIs DEF OtherCreates
  <2> QED BY <1>2, <2>1, OthersStep DEF OtherCreates
<1>3. ASSUME NEW i \in Ids, OtherDeletes(i), UNCHANGED mode PROVE RestInv'
  <2>1. StoredAt(i)
    BY <1>1, <1>3, AnyIsValid, StoredIs DEF OtherDeletes
  <2> QED BY <1>3, <2>1, OthersStep DEF OtherDeletes
<1>4. ASSUME NEW i \in Ids, OtherPauses(i), UNCHANGED mode PROVE RestInv'
  <2> DEFINE b == ~stored[i].timing.paused
  <2>1. b \in BOOLEAN /\ stored' = [stored EXCEPT ![i].timing.paused = b]
    BY <1>1, <1>4 DEF OtherPauses
  <2> HIDE DEF b
  <2>2. StoredAt(i)
    BY <1>1, <2>1, PausedIs
  <2> QED BY <1>4, <2>2, OthersStep DEF OtherPauses
<1>5. CASE Edit /\ UNCHANGED mode
  BY <1>4, <1>5, IdsAreThere, FireStep, ReadStep, AskStep, ServeStep, EndStep DEF Edit
<1>6. CASE (Iterate /\ UNCHANGED mode) \/ UNCHANGED vars
  <2>1. UNCHANGED <<mode, stored, runs, held, call>>
    BY <1>6 DEF Iterate, vars
  <2> QED BY <2>1 DEF RestInv, Types, ValidInv, CallInv
<1> QED BY <1>2, <1>3, <1>5, <1>6 DEF Next, Others

LEMMA ListStep ==
  ASSUME ListInv, [Next]_vars
  PROVE  ListInv'
<1>1. stayed \subseteq present /\ present \subseteq Ids
  BY DEF ListInv
<1>2. CASE Others
  BY <1>1, <1>2, CollectionStep DEF Others, OtherCreates, OtherDeletes
<1>3. CASE Iterate
  BY <1>3, PagerStep DEF Iterate
<1>4. CASE Edit
  <2>1. \/ UNCHANGED listingVars
        \/ \E i \in Ids : /\ present' = present \ {i} /\ stayed' = stayed \ {i}
                          /\ UNCHANGED pager
    <3>1. CASE Serve
      <4>1. \/ UNCHANGED listingVars
            \/ present' = present \ {call.id} /\ stayed' = stayed \ {call.id} /\ UNCHANGED pager
               /\ call.id \in present
        BY <3>1 DEF Serve, Do, listingVars
      <4> QED BY <1>1, <4>1
    <3>2. CASE ~Serve
      BY <1>4, <3>2 DEF Edit, OtherPauses, Fire, GetSchedule, GetRun, Update, Rerun, Pause, Ask,
         Lose, Joined, Finish
    <3> QED BY <3>1, <3>2
  <2> QED BY <1>1, <2>1, CollectionStep DEF listingVars
<1>5. CASE UNCHANGED vars
  BY <1>1, <1>5, CollectionStep DEF vars, listingVars
<1> QED BY <1>2, <1>3, <1>4, <1>5 DEF Next

\* The whole invariant.
IInv == RestInv /\ ListInv

LEMMA Invariance == Spec => []IInv
<1>1. Init => IInv
  BY RestInit, ListInit DEF IInv
<1>2. IInv /\ [Next]_vars => IInv'
  BY RestStep, ListStep DEF IInv
<1> QED BY <1>1, <1>2, PTL DEF Spec

-----------------------------------------------------------------------------
(* The theorems.                                                           *)

\* Every variable has its type, and whatever is stored has one trigger and one
\* target.
THEOREM TypeCorrect == Spec => []TypeOK
<1>1. ASSUME IInv PROVE TypeOK
  <2>1. /\ Types /\ ValidInv /\ ListInv
    BY <1>1 DEF IInv, RestInv
  <2>2. \A i \in Ids : OneTrigger(stored[i].timing) /\ OneTarget(stored[i].spec)
    BY <2>1, ValidMeansOne DEF Types, ValidInv
  <2> QED BY <2>1, <2>2 DEF TypeOK, Types, ListInv
<1> QED BY <1>1, Invariance, PTL

\* An iterator answers each item once, up to its limit, and misses none that stayed.
THEOREM ListIsComplete == Spec => []ListsEachOnce
<1>1. ASSUME IInv PROVE ListsEachOnce
  <2>1. ListInv /\ pager \in Pagers /\ OrderInv /\ CompleteInv
    BY <1>1 DEF IInv, ListInv
  <2>2. ASSUME NEW i \in DOMAIN pager.answered, NEW j \in DOMAIN pager.answered, i # j
        PROVE  pager.answered[i] # pager.answered[j]
    <3>1. /\ i \in Nat /\ j \in Nat
          /\ pager.answered[i] \in Nat /\ pager.answered[j] \in Nat
      <4>1. /\ pager.answered \in Seq(Ids)
            /\ DOMAIN pager.answered = 1..Len(pager.answered)
            /\ Len(pager.answered) \in Nat
        BY <2>1, PagerFields
      <4>2. i \in 1..Len(pager.answered) /\ j \in 1..Len(pager.answered)
        BY <2>2, <4>1
      <4>3. pager.answered[i] \in Ids /\ pager.answered[j] \in Ids
        BY <4>1, <4>2, ElementOfSeq
      <4>4. i \in Nat /\ j \in Nat /\ Ids \subseteq Nat
        BY <4>1, <4>2, ListingAssumption DEF Ids
      <4> QED BY <4>3, <4>4
    <3>2. i < j \/ j < i
      BY <2>2, <3>1
    <3>3. (i < j => pager.answered[i] < pager.answered[j])
          /\ (j < i => pager.answered[j] < pager.answered[i])
      BY <2>1 DEF OrderInv, Ordered
    <3> QED BY <3>1, <3>2, <3>3
  <2>3. pager.limit # NoLimit => Len(pager.answered) <= pager.limit
    BY <2>1 DEF OrderInv
  <2>4. pager.step = "done" /\ ~Full(pager) => \A i \in stayed : Answered(i)
    BY <2>1 DEF CompleteInv
  <2> QED BY <2>2, <2>3, <2>4 DEF ListsEachOnce, Answered
<1> QED BY <1>1, Invariance, PTL

\* get_sandbox_by_name answers a sandbox only when no other one of that name was
\* there throughout.
THEOREM NameIsNotGuessed == Spec => []NeverGuesses
<1>1. ASSUME IInv PROVE NeverGuesses
  <2>1. ListInv /\ CompleteInv /\ pager \in Pagers
    BY <1>1 DEF IInv, ListInv
  <2>2. ASSUME pager.step = "found", NEW i \in stayed PROVE i = pager.answered[1]
    <3>1. Len(pager.answered) = 1 /\ Answered(i)
      BY <2>1, <2>2 DEF ListInv, CompleteInv
    <3>2. DOMAIN pager.answered = 1..1
      BY <2>1, <3>1, PagerFields
    <3> QED BY <3>1, <3>2 DEF Answered
  <2> QED BY <2>2 DEF NeverGuesses
<1> QED BY <1>1, Invariance, PTL

\* What an update or a rerun leaves at the service differs from what the program
\* read in nothing but the edited fields.
THEOREM EditIsLocal == Spec => []EditKeepsRest
<1>1. ASSUME IInv PROVE EditKeepsRest
  <2>1. /\ CallInv /\ held.raw \in Messages /\ held.value = ValueOf(held.raw)
        /\ held.raw.spec \in JobProtos /\ held.raw.timing \in TimingProtos
    BY <1>1 DEF IInv, RestInv, Types, Held, CallInv, Messages
  <2>2. /\ held.value.spec = JobFromProto(held.raw.spec)
        /\ held.value.timing = TimingFromProto(held.raw.timing)
    BY <2>1, ValueTypes
  <2>3. JobIsKnown(held.raw.spec) => JobToProto(held.value.spec) = held.raw.spec
    BY <2>1, <2>2, JobRoundTrip
  <2>4. TimingIsKnown(held.raw.timing) => TimingToProto(held.value.timing) = held.raw.timing
    BY <2>1, <2>2, TimingRoundTrip
  <2>5. ASSUME call.step = "answered", JobIsKnown(held.raw.spec), call.op = "update",
               TimingIsKnown(held.raw.timing), ~held.touched
        PROVE  LET now == stored[call.id] IN
               /\ now.spec = held.raw.spec
               /\ now.timing = [held.raw.timing EXCEPT !.cron = now.timing.cron,
                                   !.interval = now.timing.interval,
                                   !.runAt = now.timing.runAt]
    <3>1. stored[call.id] = call.request
      BY <2>1, <2>5 DEF CallInv
    <3> QED BY <2>1, <2>3, <2>4, <2>5, <3>1 DEF CallInv
  <2>6. ASSUME call.step = "answered", JobIsKnown(held.raw.spec), call.op = "rerun"
        PROVE  LET new == runs[call.run] IN
               new = [held.raw.spec EXCEPT !.rest = new.rest]
    <3>1. runs[call.run] = call.request.spec
      BY <2>1, <2>6 DEF CallInv
    <3> QED BY <2>1, <2>3, <2>6, <3>1 DEF CallInv
  <2> QED BY <2>5, <2>6 DEF EditKeepsRest
<1> QED BY <1>1, Invariance, PTL
=============================================================================
