------------------------------- MODULE Firestore -------------------------------
(***************************************************************************)
(* A Firestore collection, as mcp_server/writes.py and oauth_store.py use  *)
(* it: the documents that exist, by id.  Firestore is outside src/.        *)
(***************************************************************************)

NoDocs == [id \in {} |-> {}]

Stored(collection, id, doc) ==
    [j \in DOMAIN collection \cup {id} |-> IF j = id THEN doc ELSE collection[j]]

Deleted(collection, id) == [j \in DOMAIN collection \ {id} |-> collection[j]]
=============================================================================
