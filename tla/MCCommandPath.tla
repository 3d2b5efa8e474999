---------------------------- MODULE MCCommandPath ----------------------------
(***************************************************************************)
(* The results a command may be answered from, on two instances: two       *)
(* processes on the result store, with two keys, room for one result and   *)
(* two outputs that share the blob of an empty stderr; and two team runs,  *)
(* one with each lookup protocol, of which one publishes.  The first state *)
(* picks the instance; the other component stays where it starts.          *)
(***************************************************************************)
EXTENDS ResultStore, TeamClient, TLC

CONSTANTS p1, p2, o1, o2, empty, k1, k2

VARIABLE instance

\* The root revokes a record, then a key, signs two bundles of one epoch,
\* forgets a revocation and binds a key id anew.
Root(epoch, active, revoked, expires) ==
    [epoch |-> epoch, active |-> active, revoked |-> revoked, expires |-> expires]
Signed ==
    {Root(1, {<<"k1", "u">>, <<"k2", "u">>}, {}, 3),
     Root(2, {<<"k1", "u">>, <<"k2", "u">>}, {"r1"}, 2),
     Root(2, {<<"k1", "u">>}, {"k2"}, 3),
     Root(3, {<<"k2", "u">>}, {"r1", "k1"}, 3),
     Root(3, {<<"k1", "w">>}, {"r1", "k2"}, 3)}
Published ==
    {[record |-> "r1", key |-> <<"k1", "u">>, request |-> "x", created |-> 0, expires |-> 3],
     [record |-> "r2", key |-> <<"k2", "u">>, request |-> "x", created |-> 1, expires |-> 3]}
PublisherKey == <<"k1", "u">>

MCOutput == {<<o1, empty>>, <<o2, empty>>}
Symmetry == Permutations({p1, p2}) \cup Permutations({o1, o2}) \cup Permutations({k1, k2})

MCInit ==
    /\ StoreInit /\ Init
    /\ instance \in {"client", "store"}
    /\ instance = "store" => content = "x"

MCNext ==
    /\ UNCHANGED instance
    /\ \/ instance = "store" /\ StoreNext /\ UNCHANGED vars
       \/ instance = "client" /\ Next /\ UNCHANGED svars

MCSpec == MCInit /\ [][MCNext]_<<instance, svars, vars>>
=============================================================================
