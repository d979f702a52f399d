------------------------------ MODULE Listing ------------------------------
(***************************************************************************)
(* The paged iterators of src/tyto/_client.py (list_sandboxes,             *)
(* list_job_runs, list_job_schedules) and get_sandbox_by_name on top of    *)
(* one, over a collection that other clients change while the pages are    *)
(* read.  An iterator is lazy: it asks for a page when the program wants   *)
(* an item and has none left.  The service orders items by id and a page   *)
(* token says up to which id it has looked; a page may be short, or empty, *)
(* and may hold more items than asked for.                                 *)
(***************************************************************************)
EXTENDS Naturals, Sequences, FiniteSets

CONSTANTS MaxId,        \* bound: items 1, ..., MaxId
          Limits,       \* the limits of the calls, NoLimit for None
          NoLimit,
          PageMax,      \* largest page size asked for (100 in the code)
          ServerPage    \* bound: items in a page

ASSUME ListingAssumption ==
    /\ MaxId \in Nat \ {0} /\ NoLimit \notin Nat /\ Limits \subseteq Nat \cup {NoLimit}
    /\ PageMax \in Nat \ {0} /\ ServerPage \in Nat \ {0}

VARIABLES
    present,    \* items the collection holds
    stayed,     \* those it has held ever since the iterator was made
    pager       \* the iterator

-----------------------------------------------------------------------------
Ids == 1..MaxId

\* Items in order, at most n of them.
Lists(n) == UNION {[1..k -> Ids] : k \in 0..n}
Ordered(s) == \A i, j \in DOMAIN s : i < j => s[i] < s[j]
Of(s) == {s[i] : i \in DOMAIN s}

\* step: where the generator is; limit, token, page (what is left of it) and
\* next (its next_page_token) are its locals, token 0 being ""; answered: what
\* it has yielded; byName: get_sandbox_by_name consumes it.
Pagers == [step : {"idle", "ask", "page", "done", "get", "found", "raised"},
           byName : BOOLEAN, limit : Limits \cup {2}, token : 0..MaxId,
           page : Lists(ServerPage), next : 0..MaxId, answered : Lists(MaxId)]

NoPager(l) == [step |-> "idle", byName |-> FALSE, limit |-> l, token |-> 0,
               page |-> <<>>, next |-> 0, answered |-> <<>>]

ListingInit ==
    /\ present \in SUBSET Ids /\ stayed = present
    /\ \E l \in Limits : pager = NoPager(l)

Full(p) == p.limit # NoLimit /\ Len(p.answered) >= p.limit

\* What a page request asks for; 0 leaves it to the service.
PageSize(p) ==
    IF p.limit = NoLimit THEN 0
    ELSE LET left == p.limit - Len(p.answered)
         IN IF left < PageMax THEN left ELSE PageMax

-----------------------------------------------------------------------------
\* A limit of 0 makes an iterator that asks for nothing.
List(l) ==
    /\ pager.step \in {"idle", "done", "found", "raised"}
    /\ pager' = [NoPager(l) EXCEPT !.step = IF l = 0 THEN "done" ELSE "ask"]
    /\ stayed' = present
    /\ UNCHANGED present

\* (Mutant: one match is taken for the only one.)
NameLimitOne == 1

\* Two are enough to tell one match from more.
NameLimit == 2

GetByName ==
    /\ pager.step \in {"idle", "done", "found", "raised"}
    /\ pager' = [NoPager(NameLimit) EXCEPT !.step = "ask", !.byName = TRUE]
    /\ stayed' = present
    /\ UNCHANGED present

\* The ids after the token.
After(token) == {i \in present : i > token}

\* The service gives the first items after the token.  It may give more than
\* the page size (but not than ServerPage), or fewer, and says with a token
\* how far it has looked; there may be nothing behind a token.
Fetch ==
    /\ pager.step = "ask"
    /\ LET after == After(pager.token) IN
       \E page \in Lists(ServerPage) :
        /\ Ordered(page) /\ Of(page) \subseteq after
        /\ \A i \in Of(page) : \A j \in after \ Of(page) : i < j
        /\ PageSize(pager) # 0 => Len(page) <= PageSize(pager) + 1
        /\ \E next \in 0..MaxId :
              /\ \/ next = 0 /\ Of(page) = after
                 \/ /\ next # 0 /\ pager.token <= next
                    /\ \A i \in Of(page) : i <= next
                    /\ \A j \in after \ Of(page) : next < j
              /\ pager' = [pager EXCEPT !.step = "page", !.page = page, !.next = next]
    /\ UNCHANGED <<present, stayed>>

\* The page request is retried with the same token; when it fails for good the
\* iterator raises.
FetchFails ==
    /\ pager.step = "ask"
    /\ pager' = [pager EXCEPT !.step = "raised"]
    /\ UNCHANGED <<present, stayed>>

\* The next item of the page, unless the limit is reached.
Yield ==
    /\ pager.step = "page" /\ pager.page # <<>>
    /\ pager' = IF Full(pager) THEN [pager EXCEPT !.step = "done", !.page = <<>>]
                ELSE [pager EXCEPT !.answered = Append(@, Head(pager.page)),
                                   !.page = Tail(@)]
    /\ UNCHANGED <<present, stayed>>

\* No token, or enough items.
IsLast(p) == p.next = 0 \/ Full(p)

\* (Mutant: the token of the first page is used for the next one.)
PageEndAgain ==
    /\ pager.step = "page" /\ pager.page = <<>>
    /\ pager' = [pager EXCEPT !.step = IF IsLast(pager) THEN "done" ELSE "ask"]
    /\ UNCHANGED <<present, stayed>>

\* The page is used up.
PageEnd ==
    /\ pager.step = "page" /\ pager.page = <<>>
    /\ pager' = [pager EXCEPT !.step = IF IsLast(pager) THEN "done" ELSE "ask",
                              !.token = pager.next]
    /\ UNCHANGED <<present, stayed>>

\* get_sandbox_by_name: no match and two are raised, one is fetched by its id.
Resolve ==
    /\ pager.byName /\ pager.step = "done"
    /\ pager' = [pager EXCEPT !.step = IF Len(pager.answered) = 1 THEN "get" ELSE "raised"]
    /\ UNCHANGED <<present, stayed>>

\* get_sandbox: not found when it has been deleted since.
GetMatch ==
    /\ pager.step = "get"
    /\ pager' = [pager EXCEPT !.step =
                    IF pager.answered[1] \in present THEN "found" ELSE "raised"]
    /\ UNCHANGED <<present, stayed>>

Pager ==
    \/ \E l \in Limits : List(l)
    \/ GetByName \/ Fetch \/ FetchFails \/ Yield \/ PageEnd \/ Resolve \/ GetMatch

-----------------------------------------------------------------------------
\* An iterator yields an item at most once and never more than its limit, and
\* one that ends below its limit has yielded every item the collection held
\* all along, however pages and changes of other clients interleave.
ListsEachOnce ==
    LET p == pager IN
    /\ \A i, j \in DOMAIN p.answered : i # j => p.answered[i] # p.answered[j]
    /\ p.limit # NoLimit => Len(p.answered) <= p.limit
    /\ p.step = "done" /\ ~Full(p)
       => \A i \in stayed : \E k \in DOMAIN p.answered : p.answered[k] = i

\* get_sandbox_by_name does not guess: it answers a sandbox only when no other
\* one of that name was there throughout the call.
NeverGuesses ==
    pager.step = "found" => \A i \in stayed : i = pager.answered[1]
=============================================================================
