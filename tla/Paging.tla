------------------------------- MODULE Paging -------------------------------
(***************************************************************************)
(* GET /messages: the page of a group that a reader gets                   *)
(* (InMemoryStorage::get_messages_by_group and the get_messages handler).  *)
(* Both only read, under the messages lock, so a page is a function of the *)
(* state.  The caller's group has been checked by then.                    *)
(***************************************************************************)
EXTENDS Storage, SequencesExt

CONSTANTS
    DefaultPageLimit,   \* DEFAULT_PAGE_LIMIT
    MaxPageLimit        \* MAX_PAGE_LIMIT

ASSUME PagingAssumption ==
    /\ IsFiniteSet(MessageIds)
    /\ DefaultPageLimit \in Nat
    /\ MaxPageLimit \in Nat
    /\ None \notin Nat

InGroup(group) == {i \in Stored : messages[i].group_id = group}

\* Fault: the lower bound is inclusive.
Matching_Inclusive(group, after, before) ==
    {i \in InGroup(group) :
        /\ after # None => messages[i].order >= after
        /\ before # None => messages[i].order < before}

\* Both bounds are exclusive, and either may be missing.
Matching(group, after, before) ==
    {i \in InGroup(group) :
        /\ after # None => messages[i].order > after
        /\ before # None => messages[i].order < before}

ByOrder(i, j) == messages[i].order < messages[j].order

\* The result of sort_by_key, which is unambiguous because orders are unique.
Ascending(ids) ==
    CHOOSE s \in [1..Cardinality(ids) -> ids] :
        \A a, b \in DOMAIN s : a < b => ByOrder(s[a], s[b])

FirstOf(ids, limit) == SubSeq(ids, 1, IF Len(ids) < limit THEN Len(ids) ELSE limit)

\* Fault: the page is cut off at the wrong end.
get_messages_by_group_CutsOldest(group, after, before, limit) ==
    LET found == Ascending(Matching(group, after, before))
    IN  Reverse(FirstOf(Reverse(found), limit))

\* Ascending order, cut off at the limit.
get_messages_by_group(group, after, before, limit) ==
    FirstOf(Ascending(Matching(group, after, before)), limit)

PageLimit(limit) ==
    IF limit = None THEN DefaultPageLimit
    ELSE IF limit < MaxPageLimit THEN limit ELSE MaxPageLimit

\* Fault: no extra message is fetched to learn whether there are more.
get_messages_NoLookahead(group, after, before, limit) ==
    LET found == get_messages_by_group(group, after, before, PageLimit(limit))
    IN  [messages |-> FirstOf(found, PageLimit(limit)),
         has_next |-> Len(found) > PageLimit(limit)]

\* One message more than the page holds is fetched, to fill in has_next.
get_messages(group, after, before, limit) ==
    LET found == get_messages_by_group(group, after, before, PageLimit(limit) + 1)
    IN  [messages |-> FirstOf(found, PageLimit(limit)),
         has_next |-> Len(found) > PageLimit(limit)]
=============================================================================
