----------------------------- MODULE ShortLinks -----------------------------
(***************************************************************************)
(* What the service promises about short links, whatever the interleaving  *)
(* of its handlers and its delete worker: a URL gets a short link once and *)
(* keeps it, two URLs never share one, users are linked to existing short  *)
(* links only, and a link is deleted, for good, only for a user who is     *)
(* linked to it.                                                           *)
(***************************************************************************)
CONSTANTS Ids, Urls, Users, NoId

VARIABLES
    link,    \* URL -> its short id, or NoId
    owned,   \* user -> short ids the user is linked to
    gone     \* deleted short ids

links == <<link, owned, gone>>

Assigned == {link[u] : u \in Urls} \ {NoId}

Init ==
    /\ link  = [u \in Urls |-> NoId]
    /\ owned = [w \in Users |-> {}]
    /\ gone  = {}

\* Some URLs without a short link get one each, all of them new.
Assign(new) ==
    /\ \A u \in DOMAIN new : link[u] = NoId /\ new[u] \notin Assigned
    /\ \A u, v \in DOMAIN new : new[u] = new[v] => u = v
    /\ link' = [u \in Urls |-> IF u \in DOMAIN new THEN new[u] ELSE link[u]]
    /\ UNCHANGED <<owned, gone>>

Own(w, ids) ==
    /\ ids \subseteq Assigned
    /\ owned' = [owned EXCEPT ![w] = @ \cup ids]
    /\ UNCHANGED <<link, gone>>

Remove(w, ids) ==
    /\ ids \subseteq owned[w]
    /\ gone' = gone \cup ids
    /\ UNCHANGED <<link, owned>>

Next ==
    \/ \E S \in SUBSET Urls : \E new \in [S -> Ids] : Assign(new)
    \/ \E w \in Users, ids \in SUBSET Ids : Own(w, ids) \/ Remove(w, ids)

Spec == Init /\ [][Next]_links
=============================================================================
