--------------------------- MODULE ReaderInvariant ---------------------------
(***************************************************************************)
(* The inductive invariant behind the properties of Reader: what was       *)
(* received belongs to its group, and late messages are really below the   *)
(* position of the reader.  TLC checks it on a small instance,             *)
(* ReaderProofs proves it.                                                 *)
(***************************************************************************)
EXTENDS Reader

ReceivedOfGroup ==
    \A g \in Groups : \A a \in DOMAIN received[g] : received[g][a] \in InGroup(g)

LateArePassed ==
    \A i \in late : contains_key(i) /\ Passed(messages[i].group_id, messages[i].order)

IInv ==
    /\ TypeOK
    /\ HandlersInv
    /\ ReceivedOfGroup
    /\ ReceivedInOrder
    /\ NothingSkipped
    /\ LateArePassed
=============================================================================
