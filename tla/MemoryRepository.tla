-------------------------- MODULE MemoryRepository --------------------------
(***************************************************************************)
(* The store behind the service: internal/repository/memory.go.  The type  *)
(* guards its four maps with one RWMutex, held for the whole of each       *)
(* method, so every operation below is one atomic step.  PostgreSQL gives  *)
(* the same atomicity per statement (ON CONFLICT DO NOTHING), which is why *)
(* the modules above use these operations for it too and add only its      *)
(* failures.                                                               *)
(*                                                                         *)
(* The modules that EXTEND this one call the operations: an operation that *)
(* writes is an action on the variables, one that reads is a state         *)
(* function.                                                               *)
(***************************************************************************)
EXTENDS Naturals, FiniteSets

CONSTANTS
    Ids,     \* short identifiers randomstringbase can draw
    Urls,    \* normalised original URLs
    Users,   \* user ids; the blank one is not among them
    NoId, NoUrl

ASSUME SentinelsAssumption == NoId \notin Ids /\ NoUrl \notin Urls

VARIABLES
    data,      \* short id -> URL,  NoUrl for an absent key
    original,  \* URL -> short id,  NoId for an absent key
    user,      \* user -> short ids linked to the user
    known,     \* users that have a key in the map `user`
    deleted    \* short ids marked as deleted

store == <<data, original, user, known, deleted>>

StoreTypeOK ==
    /\ data     \in [Ids -> Urls \cup {NoUrl}]
    /\ original \in [Urls -> Ids \cup {NoId}]
    /\ user     \in [Users -> SUBSET Ids]
    /\ known    \subseteq Users
    /\ deleted  \subseteq Ids

StoreInit ==
    /\ data     = [i \in Ids |-> NoUrl]
    /\ original = [u \in Urls |-> NoId]
    /\ user     = [w \in Users |-> {}]
    /\ known    = {}
    /\ deleted  = {}

-----------------------------------------------------------------------------
(* Reads *)

Exists(i)        == data[i] # NoUrl
Known(u)         == original[u] # NoId
GetWithDeleted(i) == [found |-> Exists(i), original |-> data[i], deleted |-> i \in deleted]

\* The ids ListUserURLs returns: linked, stored and not deleted.
ListUserURLs(w) == {i \in user[w] : Exists(i) /\ i \notin deleted}

Stats == [urls |-> Cardinality({i \in Ids : Exists(i)}), users |-> Cardinality(known)]

-----------------------------------------------------------------------------
(* Writes *)

\* Mutants: the short id, or the original URL, is not checked.
FreshByOriginal(i, u) == ~Known(u)
FreshById(i, u)       == ~Exists(i)

Fresh(i, u) == ~Exists(i) /\ ~Known(u)

\* Mutant: the second map gets the key for the value.
PutIfAbsentSwapped(i, u) ==
    /\ Fresh(i, u)
    /\ data' = [data EXCEPT ![i] = u]
    /\ original' = [original EXCEPT ![u] = u]
    /\ UNCHANGED <<user, known, deleted>>

\* PutIfAbsent answering created = true; answering false it changes nothing.
PutIfAbsent(i, u) ==
    /\ Fresh(i, u)
    /\ data' = [data EXCEPT ![i] = u]
    /\ original' = [original EXCEPT ![u] = i]
    /\ UNCHANGED <<user, known, deleted>>

\* Mutant: without ON CONFLICT DO NOTHING one taken item refuses the batch.
PutBatchAllOrNothing(batch, ids) ==
    /\ \E all \in {\A u \in batch : Fresh(ids[u], u)} :
        /\ data' = [i \in Ids |-> IF all /\ \E u \in batch : ids[u] = i
                                  THEN CHOOSE u \in batch : ids[u] = i ELSE data[i]]
        /\ original' = [u \in Urls |-> IF all /\ u \in batch THEN ids[u] ELSE original[u]]
    /\ UNCHANGED <<user, known, deleted>>

\* PutBatchIfAbsent for the items {[ID |-> ids[u], Original |-> u] : u \in batch}.
\* The URLs of a batch differ, and so do its ids (BatchIdsDistinct of the
\* module that calls this), so the order the loop takes them in is immaterial.
PutBatchIfAbsent(batch, ids) ==
    LET stored == {u \in batch : Fresh(ids[u], u)}
    IN  /\ data' = [i \in Ids |-> IF \E u \in stored : ids[u] = i
                                  THEN CHOOSE u \in stored : ids[u] = i
                                  ELSE data[i]]
        /\ original' = [u \in Urls |-> IF u \in stored THEN ids[u] ELSE original[u]]
        /\ UNCHANGED <<user, known, deleted>>

\* Mutant: the set of the user is made anew for every call.
ReplaceUserURLs(w, ids) ==
    /\ user' = [user EXCEPT ![w] = ids]
    /\ known' = known \cup {w}
    /\ UNCHANGED <<data, original, deleted>>

AddUserURLs(w, ids) ==
    /\ user' = [user EXCEPT ![w] = @ \cup ids]
    /\ known' = known \cup {w}
    /\ UNCHANGED <<data, original, deleted>>

\* Mutant: the ids are not looked up among the user's.
MarkDeletedAny(w, ids) ==
    /\ deleted' = deleted \cup ids
    /\ UNCHANGED <<data, original, user, known>>

MarkDeleted(w, ids) ==
    /\ deleted' = deleted \cup (ids \cap user[w])
    /\ UNCHANGED <<data, original, user, known>>

\* Mutant: the index by original URL keeps the record.
DeleteById(i) ==
    /\ data' = [data EXCEPT ![i] = NoUrl]
    /\ user' = [w \in Users |-> user[w] \ {i}]
    /\ deleted' = deleted \ {i}
    /\ UNCHANGED <<original, known>>

\* Only the rollback of the file repository removes a record.  A user keeps
\* the key in the map even when the set under it has become empty.
Delete(i) ==
    /\ data' = [data EXCEPT ![i] = NoUrl]
    /\ original' = [u \in Urls |-> IF data[i] = u THEN NoId ELSE original[u]]
    /\ user' = [w \in Users |-> user[w] \ {i}]
    /\ deleted' = deleted \ {i}
    /\ UNCHANGED known

=============================================================================
