------------------------ MODULE MCCollectionRequests ------------------------
(* CollectionRequests with two EMIs of two units. One user collects through *)
(* the clients that leave the EMI to the server, another at the counter, of  *)
(* part and full amounts, with and without a reference number.               *)
EXTENDS CollectionRequests, TLC

CONSTANTS u1, u2, Ref

Intent(user, client, e, amount, reference) ==
  [user |-> user, client |-> client, emi |-> e, amount |-> amount, reference |-> reference]

MCIntents ==
  {Intent(u1, client, 0, a, NoReference) :
     client \in {"UNIFIED", "UNIFIED_NO_UUID", "SCRIPT"}, a \in 1..2}
  \union {Intent(u1, client, 0, 1, Ref) : client \in {"UNIFIED", "SCRIPT"}}
  \union {Intent(u2, "COUNTER", 1, a, ref) : a \in 1..2, ref \in {NoReference, Ref}}

Symmetry == Permutations(Collections)
=============================================================================
