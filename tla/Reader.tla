------------------------------- MODULE Reader -------------------------------
(***************************************************************************)
(* A client that reads the groups page by page, as adapter.rs describes    *)
(* it: it passes the order of the last message it has got as after_order,  *)
(* again and again, while other clients write.  The client is external;    *)
(* every page is answered by Paging.                                       *)
(*                                                                         *)
(* `late` is a history variable: the messages that became visible below    *)
(* the position the reader had reached in their group.                     *)
(***************************************************************************)
EXTENDS Handlers, Paging

CONSTANT Limits     \* the values of the `limit` parameter, None for no limit

ASSUME ReaderAssumption == Limits \subseteq Nat \cup {None}

VARIABLES
    received,   \* group -> the messages the reader got, in the order it got them
    more,       \* group -> has_next of the last page
    late

readerVars == <<received, more, late>>

vars == <<appVars, handlerVars, readerVars>>

TypeOK ==
    /\ HandlersTypeInv
    /\ received \in [Groups -> Seq(MessageIds)]
    /\ more \in [Groups -> BOOLEAN]
    /\ late \subseteq MessageIds

Init ==
    /\ NoRequests
    /\ received = [g \in Groups |-> <<>>]
    /\ more = [g \in Groups |-> FALSE]
    /\ late = {}

Position(g) == IF received[g] = <<>> THEN None ELSE messages[Last(received[g])].order

Passed(g, order) == Position(g) # None /\ order <= Position(g)

Poll(g, limit) ==
    LET page == get_messages(g, Position(g), None, limit)
    IN  /\ received' = [received EXCEPT ![g] = @ \o page.messages]
        /\ more' = [more EXCEPT ![g] = page.has_next]
        /\ UNCHANGED <<appVars, handlerVars, late>>

Write ==
    /\ Requests
    /\ late' = late \cup
          {i \in MessageIds \ Stored :
              contains_key(i)' /\ Passed(messages'[i].group_id, messages'[i].order)}
    /\ UNCHANGED <<received, more>>

Next == Write \/ \E g \in Groups, limit \in Limits : Poll(g, limit)

Spec == Init /\ [][Next]_vars

------------------------------------------------------------------------------
(* Properties of reading page by page while others write. *)

\* The pages of a group, put one after another, are strictly ascending: nothing
\* is received twice or out of order, whatever is written between the pages.
ReceivedInOrder ==
    \A g \in Groups : \A a, b \in DOMAIN received[g] :
        a < b => ByOrder(received[g][a], received[g][b])

\* The reader has got every message up to its position except those that were
\* inserted below it after it had passed: pages never leave a hole.  The first
\* page, asked for without bounds, is no exception: it holds the oldest messages
\* of the group, while adapter.rs says that storage "returns the most recent
\* messages" then, below which a reader with after_order would miss the others.
NothingSkipped ==
    \A g \in Groups : \A i \in InGroup(g) \ late :
        Passed(g, messages[i].order) => i \in ToSet(received[g])

\* has_next tells whether a message beyond the page exists, so a reader that
\* stops at FALSE has reached the end and one that goes on at TRUE, with a limit
\* other than 0, gets more.
HasNextIsExact ==
    [][\A g \in Groups, limit \in Limits : Poll(g, limit) =>
          (more'[g] <=> \E i \in InGroup(g) \ late : i \notin ToSet(received'[g]))]_vars
=============================================================================
