--------------------------- MODULE MCApproverJob ---------------------------
(* The installplan-approver job with three operators, one of whose texts is *)
(* part of another's, and with every kind of selection a spec may have.     *)
EXTENDS ApproverJob

CONSTANTS etcd, acm, cetcd

Texts == {<<o, o>> : o \in Operator} \cup {<<etcd, cetcd>>}

Lists ==
    {[include |-> <<>>, exclude |-> <<>>],
     [include |-> <<acm, etcd>>, exclude |-> <<>>],
     [include |-> <<cetcd>>, exclude |-> <<etcd>>],
     [include |-> <<>>, exclude |-> <<acm, etcd>>]}

=============================================================================
