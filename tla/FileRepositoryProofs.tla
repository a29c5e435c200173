------------------------ MODULE FileRepositoryProofs ------------------------
(***************************************************************************)
(* Proofs about FileRepository, for any number of ids, URLs and users.     *)
(* With any number of writers and every failure but a crash, the indexes   *)
(* stay inverse and a rollback takes back what is its own.  With one       *)
(* writer at a time, failing writes and crashes anywhere, what was         *)
(* reported as saved is in the files and the next start reads them.        *)
(***************************************************************************)
EXTENDS FileRepository, FiniteSetTheorems, TLAPS

Entries == (Ids \X Urls) \cup (Users \X Ids) \cup Ids

\* The records in memory, as the URL file lists them.
stored == {e \in Ids \X Urls : data[e[1]] = e[2]}

LEMMA InMemoryIs ==
    /\ InMemory("urls") = stored
    /\ InMemory("users") = {e \in Users \X Ids : e[2] \in user[e[1]]}
    /\ InMemory("deleted") = deleted
BY DEF InMemory, stored

\* A put of a fresh pair adds this pair and keeps the indexes inverse.
LEMMA PutStores ==
    ASSUME StoreTypeOK, IndexesAgree, NEW item \in Ids \X Urls,
           PutIfAbsent(item[1], item[2])
    PROVE  /\ StoreTypeOK' /\ IndexesAgree'
           /\ item \notin stored /\ stored' = stored \cup {item}
<1>1. item[1] \in Ids /\ item[2] \in Urls /\ data[item[1]] = NoUrl /\ original[item[2]] = NoId
  BY DEF PutIfAbsent, Fresh, Exists, Known
<1>2. /\ data' = [data EXCEPT ![item[1]] = item[2]]
      /\ original' = [original EXCEPT ![item[2]] = item[1]]
      /\ UNCHANGED <<user, known, deleted>>
  BY DEF PutIfAbsent
<1>3. StoreTypeOK'
  BY <1>1, <1>2 DEF StoreTypeOK
<1>4. IndexesAgree'
  BY <1>1, <1>2, SentinelsAssumption DEF IndexesAgree, StoreTypeOK
<1>5. item \notin stored
  BY <1>1, SentinelsAssumption DEF stored
<1>6. ASSUME NEW e \in Ids \X Urls
      PROVE  data'[e[1]] = e[2] <=> data[e[1]] = e[2] \/ e = item
  <2>1. e = <<e[1], e[2]>> /\ item = <<item[1], item[2]>>
    OBVIOUS
  <2> QED BY <1>1, <1>2, <2>1, SentinelsAssumption DEF StoreTypeOK
<1>7. stored' = stored \cup {item}
  BY <1>6 DEF stored
<1> QED BY <1>3, <1>4, <1>5, <1>7

\* A deletion of a stored pair takes out this pair and keeps the indexes inverse.
LEMMA DeleteTakesOut ==
    ASSUME StoreTypeOK, IndexesAgree, NEW item \in stored, Delete(item[1])
    PROVE  StoreTypeOK' /\ IndexesAgree' /\ stored' = stored \ {item}
<1>1. item \in Ids \X Urls /\ item[1] \in Ids /\ item[2] \in Urls /\ data[item[1]] = item[2]
  BY DEF stored
<1>2. /\ data' = [data EXCEPT ![item[1]] = NoUrl]
      /\ original' = [u \in Urls |-> IF u = item[2] THEN NoId ELSE original[u]]
      /\ user' = [w \in Users |-> user[w] \ {item[1]}]
      /\ deleted' = deleted \ {item[1]} /\ UNCHANGED known
  BY <1>1 DEF Delete
<1>3. StoreTypeOK'
  BY <1>1, <1>2 DEF StoreTypeOK
<1>4. IndexesAgree'
  BY <1>1, <1>2, SentinelsAssumption DEF IndexesAgree, StoreTypeOK
<1>5. ASSUME NEW e \in Ids \X Urls
      PROVE  data'[e[1]] = e[2] <=> data[e[1]] = e[2] /\ e # item
  <2>1. e = <<e[1], e[2]>> /\ item = <<item[1], item[2]>>
    BY <1>1
  <2> QED BY <1>1, <1>2, <2>1, SentinelsAssumption DEF StoreTypeOK
<1>6. stored' = stored \ {item}
  BY <1>5 DEF stored
<1> QED BY <1>3, <1>4, <1>6

-----------------------------------------------------------------------------
(***************************************************************************)
(* Any number of writers, no crash.  A writer that saves the URL file      *)
(* holds, in made, stored records that no other writer holds and that were *)
(* not reported as saved yet: these are all its rollback will touch.       *)
(***************************************************************************)
LocalsOK ==
    /\ wpc   \in [Writers -> WriterStages]
    /\ file  \in [Writers -> Files]
    /\ items \in [Writers -> SUBSET (Ids \X Urls)]
    /\ made  \in [Writers -> SUBSET Entries]
    /\ acked \in [Files -> SUBSET Entries]

savesUrls(w) == file[w] = "urls"

StagesOK ==
    \A w \in Writers :
        /\ wpc[w] \in {"idle", "put", "link", "rollback"} => savesUrls(w)
        /\ wpc[w] \in {"idle", "link"} => made[w] = {}

OwnOK ==
    /\ \A w \in Writers : savesUrls(w) => made[w] \subseteq stored /\ made[w] \cap acked["urls"] = {}
    /\ \A v, w \in Writers : v # w /\ savesUrls(v) /\ savesUrls(w) => made[v] \cap made[w] = {}

WritersInv ==
    /\ StoreTypeOK /\ IndexesAgree
    /\ LocalsOK /\ StagesOK /\ OwnOK
    /\ acked["urls"] \subseteq stored

LEMMA WritersInitially == FileInit => WritersInv
<1> SUFFICES ASSUME FileInit PROVE WritersInv
  OBVIOUS
<1>1. StoreTypeOK
  BY DEF FileInit, StoreInit, StoreTypeOK
<1>2. IndexesAgree
  BY SentinelsAssumption DEF FileInit, StoreInit, IndexesAgree
<1>3. LocalsOK
  BY DEF FileInit, LocalsOK, WriterStages, Files
<1>4. StagesOK /\ OwnOK
  BY DEF FileInit, StagesOK, OwnOK, savesUrls
<1>5. acked["urls"] \subseteq stored
  BY DEF FileInit, Files
<1> QED BY <1>1, <1>2, <1>3, <1>4, <1>5 DEF WritersInv

\* An operation begins: nothing is made, or entries of another file.
LEMMA BeginKeepsOwn ==
    ASSUME WritersInv, NEW w \in Writers, Begin(w)
    PROVE  WritersInv'
<1> USE DEF WritersInv, StagesOK, OwnOK, savesUrls
<1>1. file[w] = "urls" /\ made[w] = {}
  BY DEF Begin, BeginPut, LookUp, BeginAddUserURLs, BeginMarkDeleted, CanStart
<1>2. UNCHANGED <<data, original>>
  BY DEF Begin, BeginPut, LookUp, BeginAddUserURLs, BeginMarkDeleted, AddUserURLs, MarkDeleted, store
<1>3. IndexesAgree' /\ stored' = stored
  BY <1>2 DEF IndexesAgree, stored
<1>4. CASE LookUp(w) \/ \E batch \in Items : BeginPut(w, batch)
  <2>1. /\ UNCHANGED <<store, file, made, acked>>
        /\ \E stage \in {"put", "link"} : wpc' = [wpc EXCEPT ![w] = stage]
        /\ \E records \in SUBSET (Ids \X Urls) : items' = [items EXCEPT ![w] = records]
    BY <1>4, InMemoryIs DEF BeginPut, LookUp, goto, Items, stored
  <2>2. StoreTypeOK' /\ LocalsOK'
    BY <2>1 DEF StoreTypeOK, store, LocalsOK, WriterStages
  <2> QED BY <1>1, <1>3, <2>1, <2>2 DEF LocalsOK
<1>5. CASE \E u \in Users : \/ BeginAddUserURLs(w, u)
                          \/ \E ids \in SUBSET Ids : BeginMarkDeleted(w, u, ids)
  <2>1. PICK u \in Users : \/ BeginAddUserURLs(w, u)
                          \/ \E ids \in SUBSET Ids : BeginMarkDeleted(w, u, ids)
    BY <1>5
  <2>2. {e[1] : e \in items[w]} \in SUBSET Ids
    BY DEF LocalsOK
  <2>3. StoreTypeOK'
    BY <2>1, <2>2 DEF BeginAddUserURLs, BeginMarkDeleted, AddUserURLs, MarkDeleted, StoreTypeOK
  <2>4. \A ids \in SUBSET Ids : {u} \X ids \in SUBSET Entries /\ ids \cap user[u] \in SUBSET Entries
    BY DEF Entries
  <2>5. /\ wpc' = [wpc EXCEPT ![w] = "snapshot"] /\ UNCHANGED acked
        /\ items' \in {items, [items EXCEPT ![w] = {}]}
        /\ \E f \in {"users", "deleted"} : file' = [file EXCEPT ![w] = f]
        /\ \E new \in SUBSET Entries : made' = [made EXCEPT ![w] = new]
    BY <2>1, <2>2, <2>4 DEF BeginAddUserURLs, BeginMarkDeleted, goto
  <2>6. LocalsOK'
    BY <2>5 DEF LocalsOK, WriterStages, Files
  <2>7. /\ wpc'[w] = "snapshot" /\ file'[w] # "urls"
        /\ \A v \in Writers \ {w} : wpc'[v] = wpc[v] /\ file'[v] = file[v] /\ made'[v] = made[v]
    BY <2>5 DEF LocalsOK
  <2> QED BY <1>3, <2>3, <2>5, <2>6, <2>7
<1> QED BY <1>4, <1>5 DEF Begin

\* A put makes a record nobody holds, or finds its pair taken.
LEMMA PutKeepsOwn ==
    ASSUME WritersInv, NEW w \in Writers, NEW item \in Ids \X Urls, PutItem(w, item)
    PROVE  WritersInv'
<1> USE DEF WritersInv, StagesOK, OwnOK, savesUrls
<1>1. /\ wpc[w] = "put" /\ file[w] = "urls" /\ UNCHANGED <<file, acked>>
      /\ items' = [items EXCEPT ![w] = @ \ {item}]
  BY DEF PutItem
<1>2. /\ wpc' = [wpc EXCEPT ![w] = wpc'[w]] /\ wpc'[w] \in {"put", "snapshot", "idle"}
      /\ wpc'[w] = "idle" => made'[w] = {}
  BY DEF PutItem, goto, LocalsOK
<1>3. CASE Fresh(item[1], item[2])
  <2>1. PutIfAbsent(item[1], item[2]) /\ made' = [made EXCEPT ![w] = @ \cup {item}]
    BY <1>3 DEF PutItem
  <2>2. StoreTypeOK' /\ IndexesAgree' /\ item \notin stored /\ stored' = stored \cup {item}
    BY <2>1, PutStores
  <2>3. LocalsOK'
    BY <1>1, <1>2, <2>1 DEF LocalsOK, WriterStages, Entries
  <2>4. /\ made'[w] = made[w] \cup {item}
        /\ \A v \in Writers \ {w} : wpc'[v] = wpc[v] /\ made'[v] = made[v]
    BY <1>2, <2>1 DEF LocalsOK
  <2> QED BY <1>1, <1>2, <2>2, <2>3, <2>4
<1>4. CASE ~Fresh(item[1], item[2])
  <2>1. UNCHANGED <<store, made>>
    BY <1>4 DEF PutItem
  <2>2. StoreTypeOK' /\ IndexesAgree' /\ stored' = stored
    BY <2>1 DEF StoreTypeOK, store, IndexesAgree, stored
  <2>3. LocalsOK'
    BY <1>1, <1>2, <2>1 DEF LocalsOK, WriterStages
  <2>4. \A v \in Writers \ {w} : wpc'[v] = wpc[v]
    BY <1>2 DEF LocalsOK
  <2> QED BY <1>1, <1>2, <2>1, <2>2, <2>3, <2>4
<1> QED BY <1>3, <1>4

\* The steps of a save leave memory and what was made as they are, until the
\* operation returns.
LEMMA SaveKeepsOwn ==
    ASSUME WritersInv, NEW w \in Writers,
           \/ Snapshot(w) \/ Open(w) \/ Write(w) \/ WriteErrs(w)
           \/ Rename(w) \/ RenameErrs(w) \/ Remove(w) \/ RemoveErrs(w)
    PROVE  WritersInv'
<1> USE DEF WritersInv, StagesOK, OwnOK, savesUrls
<1>1. UNCHANGED <<store, items>>
  BY DEF Snapshot, Open, Write, WriteErrs, Rename, RenameErrs, Remove, RemoveErrs
<1>2. StoreTypeOK' /\ IndexesAgree' /\ stored' = stored
  BY <1>1 DEF StoreTypeOK, store, IndexesAgree, stored
<1>3. CASE UNCHANGED <<file, made, acked>> /\ \E s \in WriterStages : goto(w, s) /\ s \notin {"idle", "put", "link"}
                /\ (s = "rollback" => savesUrls(w))
  <2>1. PICK s \in WriterStages \ {"idle", "put", "link"} : goto(w, s) /\ (s = "rollback" => savesUrls(w))
    BY <1>3
  <2>2. LocalsOK'
    BY <1>1, <1>3, <2>1 DEF LocalsOK, goto
  <2>3. wpc'[w] = s /\ \A v \in Writers \ {w} : wpc'[v] = wpc[v]
    BY <2>1 DEF LocalsOK, goto
  <2> QED BY <1>2, <1>3, <2>1, <2>2, <2>3
<1>4. CASE return(w) /\ (acked' = acked \/ acked' = [acked EXCEPT ![file[w]] = @ \cup made[w]])
  <2>1. /\ wpc' = [wpc EXCEPT ![w] = "idle"] /\ file' = [file EXCEPT ![w] = "urls"]
        /\ made' = [made EXCEPT ![w] = {}]
    BY <1>4 DEF return
  <2>2. LocalsOK'
    BY <1>1, <1>4, <2>1 DEF LocalsOK, WriterStages, Files
  <2>3. /\ wpc'[w] = "idle" /\ file'[w] = "urls" /\ made'[w] = {}
        /\ \A v \in Writers \ {w} : wpc'[v] = wpc[v] /\ file'[v] = file[v] /\ made'[v] = made[v]
    BY <2>1 DEF LocalsOK
  <2>4. \/ acked'["urls"] = acked["urls"]
        \/ savesUrls(w) /\ acked'["urls"] = acked["urls"] \cup made[w]
    BY <1>4 DEF LocalsOK, Files
  <2> QED BY <1>2, <2>2, <2>3, <2>4
<1> USE DEF goto, WriterStages
<1>5. CASE Snapshot(w) \/ Open(w) \/ Write(w) \/ Remove(w)
  BY <1>3, <1>5 DEF Snapshot, Open, Write, Remove
<1>6. CASE WriteErrs(w) \/ RenameErrs(w) \/ RemoveErrs(w)
  BY <1>3, <1>4, <1>6 DEF WriteErrs, RenameErrs, RemoveErrs, fail
<1>7. CASE Rename(w)
  BY <1>4, <1>7 DEF Rename
<1> QED BY <1>5, <1>6, <1>7

LEMMA RollbackKeepsOwn ==
    ASSUME WritersInv, NEW w \in Writers, NEW item \in Ids \X Urls, Rollback(w, item)
    PROVE  WritersInv'
<1> USE DEF WritersInv, StagesOK, OwnOK, savesUrls
<1>1. /\ wpc[w] = "rollback" /\ item \in made[w] /\ file[w] = "urls" /\ Delete(item[1])
      /\ UNCHANGED <<items, acked>>
  BY DEF Rollback
<1>2. StoreTypeOK' /\ IndexesAgree' /\ stored' = stored \ {item}
  BY <1>1, DeleteTakesOut
<1>3. \/ made[w] = {item} /\ return(w)
      \/ made' = [made EXCEPT ![w] = @ \ {item}] /\ UNCHANGED <<wpc, file>>
  BY DEF Rollback
<1>4. /\ LocalsOK' /\ made'[w] = made[w] \ {item} /\ file'[w] = "urls"
      /\ wpc'[w] = "rollback" \/ (wpc'[w] = "idle" /\ made'[w] = {})
      /\ \A v \in Writers \ {w} : wpc'[v] = wpc[v] /\ file'[v] = file[v] /\ made'[v] = made[v]
  BY <1>1, <1>3 DEF LocalsOK, return, WriterStages, Files
<1>5. StagesOK'
  BY <1>4
<1>6. OwnOK' /\ acked'["urls"] \subseteq stored'
  BY <1>1, <1>2, <1>4
<1> QED BY <1>2, <1>4, <1>5, <1>6

\* Any number of writers, with writes and renames that fail, keep the two URL
\* maps inverse to each other; and a rollback never takes back a record whose
\* put was reported a success.
THEOREM RollbacksTakeTheirOwn ==
    ASSUME ~Crashes
    PROVE  FileSpec => [](IndexesAgree /\ AcknowledgedInMemory)
<1>1. WritersInv /\ [FileNext]_fileVars => WritersInv'
  <2> SUFFICES ASSUME WritersInv, [FileNext]_fileVars PROVE WritersInv'
    OBVIOUS
  <2>1. CASE UNCHANGED fileVars
    BY <2>1 DEF WritersInv, StoreTypeOK, IndexesAgree, LocalsOK, StagesOK, OwnOK, savesUrls,
                stored, fileVars, writerVars, store
  <2>2. ASSUME NEW w \in Writers, WriterStep(w) PROVE WritersInv'
    BY <2>2, BeginKeepsOwn, PutKeepsOwn, SaveKeepsOwn, RollbackKeepsOwn DEF WriterStep
  <2> QED BY <2>1, <2>2 DEF FileNext, Restart
<1>2. WritersInv => IndexesAgree /\ AcknowledgedInMemory
  BY InMemoryIs DEF WritersInv, AcknowledgedInMemory
<1> QED BY <1>1, <1>2, WritersInitially, PTL DEF FileSpec

-----------------------------------------------------------------------------
(***************************************************************************)
(* One writer at a time, failing writes, and crashes anywhere.  What is in *)
(* the files follows what is in memory: the URL file holds the records but *)
(* those the writer has just made, every link and every deletion is of a   *)
(* record in that file, and the text that is renamed into place is the     *)
(* whole of what memory holds.                                             *)
(***************************************************************************)
LoneTypeOK ==
    /\ FileTypeOK
    /\ made  \in [Writers -> SUBSET Entries]
    /\ snap  \in [Writers -> SUBSET Entries]
    /\ acked \in [Files -> SUBSET Entries]

savedIds == {i \in Ids : \E u \in Urls : <<i, u>> \in OnDisk("urls")}

DiskOK(w) ==
    /\ \A f \in Files : dir[f].main = 0 \/ dir[f].main # dir[f].tmp
    /\ \A f \in Files : textOf(f).state # "garbled"
    /\ OnDisk("urls") = IF file[w] = "urls" THEN stored \ made[w] ELSE stored
    /\ OnDisk("users") \subseteq InMemory("users") /\ OnDisk("deleted") \subseteq deleted

LinksOK == deleted \subseteq savedIds /\ \A u \in Users : user[u] \subseteq savedIds

SaveOK(w) ==
    /\ wpc[w] \notin {"remove", "renameAgain"}
    /\ wpc[w] \in {"idle", "put", "link", "rollback"} => file[w] = "urls"
    /\ wpc[w] \in {"idle", "link"} => made[w] = {}
    /\ wpc[w] = "link" => items[w] \subseteq stored
    /\ made[w] \subseteq InMemory(file[w])
    /\ fd[w] = IF wpc[w] = "write" THEN dir[file[w]].tmp ELSE 0
    /\ wpc[w] \in {"write", "rename"} => dir[file[w]].tmp # 0
    /\ wpc[w] \in {"open", "write"} => snap[w] = InMemory(file[w])
    /\ wpc[w] = "write" => content[file[w]][dir[file[w]].tmp] = Empty
    /\ wpc[w] = "rename" =>
          content[file[w]][dir[file[w]].tmp] = [state |-> "text", entries |-> InMemory(file[w])]

LoneInv(w) ==
    /\ LoneTypeOK /\ IndexesAgree
    /\ DiskOK(w) /\ LinksOK /\ SaveOK(w)
    /\ AcknowledgedOnDisk /\ ~refused

LEMMA LoneInodes == ASSUME NEW w, Writers = {w} PROVE Inodes = 1..3
<1>1. Cardinality({w}) = 1
  BY FS_Singleton
<1> QED BY <1>1 DEF Inodes

\* What the files hold, as long as nobody writes to the inodes of their paths.
LEMMA FilesKept ==
    ASSUME \A f \in Files : /\ dir'[f].main = dir[f].main
                            /\ dir[f].main # 0 => content'[f][dir[f].main] = content[f][dir[f].main]
    PROVE  /\ \A f \in Files : textOf(f)' = textOf(f) /\ OnDisk(f)' = OnDisk(f)
           /\ savedIds' = savedIds
           /\ acked' = acked /\ AcknowledgedOnDisk => AcknowledgedOnDisk'
<1>1. \A f \in Files : textOf(f)' = textOf(f) /\ OnDisk(f)' = OnDisk(f)
  BY DEF textOf, OnDisk
<1> QED BY <1>1 DEF savedIds, AcknowledgedOnDisk, Files

\* What memory holds, as long as nobody writes to it.
LEMMA MemoryKept ==
    ASSUME UNCHANGED store
    PROVE  /\ \A f \in Files : InMemory(f)' = InMemory(f)
           /\ stored' = stored
           /\ IndexesAgree => IndexesAgree'
           /\ StoreTypeOK => StoreTypeOK'
BY DEF store, InMemory, stored, IndexesAgree, StoreTypeOK, Files

LEMMA MemoryInTexts ==
    ASSUME StoreTypeOK, NEW f \in Files
    PROVE  /\ InMemory(f) \in SUBSET Entries
           /\ \A s \in {"empty", "text", "garbled"} : [state |-> s, entries |-> InMemory(f)] \in Texts
           /\ Empty \in Texts
<1>1. InMemory(f) \in (SUBSET (Ids \X Urls)) \cup (SUBSET (Users \X Ids)) \cup (SUBSET Ids)
  BY DEF InMemory, Files, StoreTypeOK
<1> QED BY <1>1 DEF Texts, Empty, Entries

LEMMA LoneInitially == ASSUME NEW w, Writers = {w}, FileInit PROVE LoneInv(w)
<1> USE DEF FileInit, StoreInit
<1>1. StoreTypeOK
  BY DEF StoreTypeOK
<1>2. Empty \in Texts
  BY DEF Empty, Texts
<1>3. LoneTypeOK
  BY <1>1, <1>2 DEF LoneTypeOK, FileTypeOK, WriterStages, Files
<1>4. IndexesAgree
  BY SentinelsAssumption DEF IndexesAgree
<1>5. \A f \in Files : textOf(f) = Empty /\ OnDisk(f) = {}
  BY DEF textOf, OnDisk, Empty
<1>6. stored = {}
  BY SentinelsAssumption DEF stored
<1>7. DiskOK(w)
  BY <1>5, <1>6 DEF DiskOK, Empty, Files
<1>8. LinksOK /\ SaveOK(w) /\ AcknowledgedOnDisk
  BY DEF LinksOK, SaveOK, AcknowledgedOnDisk
<1> QED BY <1>3, <1>4, <1>7, <1>8 DEF LoneInv

LEMMA LoneBegins ==
    ASSUME NEW w, Writers = {w}, LoneInv(w), Begin(w)
    PROVE  LoneInv(w)'
<1>1. /\ file[w] = "urls" /\ made[w] = {} /\ fd[w] = 0
      /\ UNCHANGED <<dir, content, fd, snap, acked, refused, data, original>>
  BY DEF Begin, BeginPut, LookUp, BeginAddUserURLs, BeginMarkDeleted, CanStart, LoneInv, SaveOK, diskVars,
         store, AddUserURLs, MarkDeleted
<1>2. /\ \A f \in Files : textOf(f)' = textOf(f) /\ OnDisk(f)' = OnDisk(f)
      /\ savedIds' = savedIds /\ AcknowledgedOnDisk'
  BY <1>1, FilesKept DEF LoneInv
<1>3. IndexesAgree' /\ stored' = stored
  BY <1>1 DEF LoneInv, IndexesAgree, stored
<1>4. OnDisk("urls") = stored /\ made[w] \subseteq stored
  BY <1>1 DEF LoneInv, DiskOK
<1>5. CASE LookUp(w) \/ \E batch \in Items : BeginPut(w, batch)
  <2>1. PICK records \in SUBSET (Ids \X Urls) :
           /\ UNCHANGED <<store, file, made>> /\ items' = [items EXCEPT ![w] = records]
           /\ \/ wpc' = [wpc EXCEPT ![w] = "put"]
              \/ wpc' = [wpc EXCEPT ![w] = "link"] /\ records \subseteq stored
    BY <1>5, InMemoryIs DEF BeginPut, LookUp, goto, Items, stored
  <2>2. LoneTypeOK'
    BY <1>1, <2>1, MemoryKept DEF LoneInv, LoneTypeOK, FileTypeOK, WriterStages
  <2>3. DiskOK(w)' /\ LinksOK'
    BY <1>1, <1>2, <2>1, MemoryKept DEF LoneInv, DiskOK, LinksOK, store, Files
  <2>4. /\ items'[w] = records /\ wpc'[w] \in {"put", "link"}
        /\ wpc'[w] = "link" => records \subseteq stored
    BY <2>1 DEF LoneInv, LoneTypeOK, FileTypeOK
  <2>5. SaveOK(w)'
    BY <1>1, <1>3, <2>1, <2>4 DEF SaveOK
  <2> QED BY <1>1, <1>2, <1>3, <2>2, <2>3, <2>5 DEF LoneInv
<1>6. ASSUME NEW u \in Users, BeginAddUserURLs(w, u)
      PROVE  LoneInv(w)'
  <2> DEFINE ids == {e[1] : e \in items[w]}
  <2>0. items[w] \subseteq stored /\ ids \in SUBSET Ids
    BY <1>6 DEF BeginAddUserURLs, LoneInv, SaveOK, stored
  <2>1. /\ user' = [user EXCEPT ![u] = @ \cup ids] /\ known' = known \cup {u}
        /\ file' = [file EXCEPT ![w] = "users"] /\ made' = [made EXCEPT ![w] = {u} \X ids]
        /\ wpc' = [wpc EXCEPT ![w] = "snapshot"] /\ UNCHANGED deleted
        /\ items' = [items EXCEPT ![w] = {}]
    BY <1>6 DEF BeginAddUserURLs, AddUserURLs, goto
  <2>4. ids \subseteq savedIds
    <3>1. \A e \in stored : e = <<e[1], e[2]>> /\ e[1] \in Ids /\ e[2] \in Urls
      BY DEF stored
    <3> QED BY <1>4, <2>0, <3>1 DEF savedIds
  <2> HIDE DEF ids
  <2>2. {u} \X ids \in SUBSET Entries
    BY <2>0 DEF Entries
  <2>3. LoneTypeOK'
    BY <1>1, <2>0, <2>1, <2>2 DEF LoneInv, LoneTypeOK, FileTypeOK, StoreTypeOK, WriterStages, Files
  <2>5. InMemory("users") \subseteq InMemory("users")' /\ {u} \X ids \subseteq InMemory("users")'
    BY <2>0, <2>1, InMemoryIs DEF LoneInv, LoneTypeOK, FileTypeOK, StoreTypeOK, InMemory
  <2>6. wpc'[w] = "snapshot" /\ file'[w] = "users" /\ made'[w] = {u} \X ids
    BY <2>1 DEF LoneInv, LoneTypeOK, FileTypeOK
  <2>7. DiskOK(w)'
    BY <1>1, <1>2, <1>3, <1>4, <2>1, <2>5, <2>6 DEF LoneInv, DiskOK, Files
  <2>8. LinksOK'
    BY <1>2, <2>1, <2>4 DEF LoneInv, LinksOK, LoneTypeOK, FileTypeOK, StoreTypeOK
  <2>9. SaveOK(w)'
    BY <1>1, <2>5, <2>6 DEF SaveOK
  <2> QED BY <1>1, <1>2, <1>3, <2>3, <2>7, <2>8, <2>9 DEF LoneInv
<1>7. ASSUME NEW u \in Users, NEW ids \in SUBSET Ids, BeginMarkDeleted(w, u, ids)
      PROVE  LoneInv(w)'
  <2>1. /\ deleted' = deleted \cup (ids \cap user[u])
        /\ file' = [file EXCEPT ![w] = "deleted"] /\ made' = [made EXCEPT ![w] = ids \cap user[u]]
        /\ wpc' = [wpc EXCEPT ![w] = "snapshot"] /\ UNCHANGED <<items, user, known>>
    BY <1>7 DEF BeginMarkDeleted, MarkDeleted, goto
  <2>2. ids \cap user[u] \in SUBSET Entries
    BY DEF Entries
  <2>3. LoneTypeOK'
    BY <1>1, <2>1, <2>2 DEF LoneInv, LoneTypeOK, FileTypeOK, StoreTypeOK, WriterStages, Files
  <2>4. InMemory("users")' = InMemory("users") /\ InMemory("deleted")' = deleted'
    BY <2>1 DEF InMemory
  <2>5. wpc'[w] = "snapshot" /\ file'[w] = "deleted" /\ made'[w] = ids \cap user[u]
    BY <2>1 DEF LoneInv, LoneTypeOK, FileTypeOK
  <2>6. DiskOK(w)'
    BY <1>1, <1>2, <1>3, <1>4, <2>1, <2>4, <2>5 DEF LoneInv, DiskOK, Files
  <2>7. LinksOK'
    BY <1>2, <2>1 DEF LoneInv, LinksOK
  <2>8. SaveOK(w)'
    BY <1>1, <2>1, <2>4, <2>5 DEF SaveOK
  <2> QED BY <1>1, <1>2, <1>3, <2>3, <2>6, <2>7, <2>8 DEF LoneInv
<1> QED BY <1>5, <1>6, <1>7 DEF Begin

\* A put in memory: the record is made, and not in the file yet.
LEMMA LonePuts ==
    ASSUME NEW w, Writers = {w}, LoneInv(w), NEW item \in Ids \X Urls, PutItem(w, item)
    PROVE  LoneInv(w)'
<1>1. /\ wpc[w] = "put" /\ file[w] = "urls" /\ fd[w] = 0
      /\ UNCHANGED <<dir, content, fd, snap, acked, refused, file>>
      /\ items' = [items EXCEPT ![w] = @ \ {item}]
  BY DEF PutItem, LoneInv, SaveOK, diskVars
<1>2. /\ \A f \in Files : textOf(f)' = textOf(f) /\ OnDisk(f)' = OnDisk(f)
      /\ savedIds' = savedIds /\ AcknowledgedOnDisk'
  BY <1>1, FilesKept DEF LoneInv
<1>3. /\ wpc' = [wpc EXCEPT ![w] = wpc'[w]] /\ wpc'[w] \in {"put", "snapshot", "idle"}
      /\ wpc'[w] = "idle" => made'[w] = {}
  BY DEF PutItem, goto, LoneInv, LoneTypeOK, FileTypeOK
<1>4. /\ made[w] \subseteq stored /\ OnDisk("urls") = stored \ made[w]
  BY <1>1, InMemoryIs DEF LoneInv, SaveOK, DiskOK
<1>5. CASE Fresh(item[1], item[2])
  <2>1. PutIfAbsent(item[1], item[2]) /\ made' = [made EXCEPT ![w] = @ \cup {item}]
    BY <1>5 DEF PutItem
  <2>2. StoreTypeOK' /\ IndexesAgree' /\ item \notin stored /\ stored' = stored \cup {item}
    BY <2>1, PutStores DEF LoneInv, LoneTypeOK, FileTypeOK
  <2>3. LoneTypeOK'
    BY <1>1, <1>3, <2>1, <2>2 DEF LoneInv, LoneTypeOK, FileTypeOK, WriterStages, Entries
  <2>4. made'[w] = made[w] \cup {item} /\ UNCHANGED <<user, known, deleted>>
    BY <2>1 DEF LoneInv, LoneTypeOK, PutIfAbsent
  <2>5. DiskOK(w)'
    <3>1. OnDisk("urls")' = stored' \ made'[w]
      BY <1>2, <1>4, <2>2, <2>4 DEF Files
    <3>2. InMemory("users")' = InMemory("users")
      BY <2>4 DEF InMemory
    <3> QED BY <1>1, <1>2, <2>4, <3>1, <3>2 DEF LoneInv, DiskOK, Files
  <2>6. LinksOK'
    BY <1>2, <2>4 DEF LoneInv, LinksOK
  <2>7. InMemory("urls")' = stored'
    BY InMemoryIs DEF InMemory, stored
  <2>8. SaveOK(w)'
    BY <1>1, <1>3, <1>4, <2>2, <2>4, <2>7 DEF SaveOK
  <2> QED BY <1>1, <1>2, <2>2, <2>3, <2>5, <2>6, <2>8 DEF LoneInv
<1>6. CASE ~Fresh(item[1], item[2])
  <2>1. UNCHANGED <<store, made>>
    BY <1>6 DEF PutItem
  <2>2. LoneTypeOK' /\ IndexesAgree'
    BY <1>1, <1>3, <2>1, MemoryKept DEF LoneInv, LoneTypeOK, FileTypeOK, WriterStages
  <2>3. DiskOK(w)' /\ LinksOK'
    BY <1>1, <1>2, <2>1, MemoryKept DEF LoneInv, DiskOK, LinksOK, store, Files
  <2>4. SaveOK(w)'
    BY <1>1, <1>3, <2>1, MemoryKept DEF LoneInv, SaveOK, Files
  <2> QED BY <1>1, <1>2, <2>2, <2>3, <2>4 DEF LoneInv
<1> QED BY <1>5, <1>6

LEMMA LoneSnapshots ==
    ASSUME NEW w, Writers = {w}, LoneInv(w), Snapshot(w)
    PROVE  LoneInv(w)'
<1>1. /\ wpc[w] = "snapshot" /\ UNCHANGED <<store, file, items, made, fd, dir, content, acked, refused>>
      /\ snap' = [snap EXCEPT ![w] = InMemory(file[w])] /\ wpc' = [wpc EXCEPT ![w] = "open"]
  BY DEF Snapshot, goto, diskVars
<1>2. file[w] \in Files /\ InMemory(file[w]) \in SUBSET Entries
  BY MemoryInTexts DEF LoneInv, LoneTypeOK, FileTypeOK
<1>3. LoneTypeOK' /\ IndexesAgree'
  BY <1>1, <1>2, MemoryKept DEF LoneInv, LoneTypeOK, FileTypeOK, WriterStages
<1>4. /\ \A f \in Files : textOf(f)' = textOf(f) /\ OnDisk(f)' = OnDisk(f)
      /\ savedIds' = savedIds /\ AcknowledgedOnDisk'
  BY <1>1, FilesKept DEF LoneInv
<1>5. DiskOK(w)' /\ LinksOK'
  BY <1>1, <1>4, MemoryKept DEF LoneInv, DiskOK, LinksOK, store, Files
<1>6. wpc'[w] = "open" /\ snap'[w] = InMemory(file[w])
  BY <1>1 DEF LoneInv, LoneTypeOK, FileTypeOK
<1>7. SaveOK(w)'
  BY <1>1, <1>2, <1>6, MemoryKept DEF LoneInv, SaveOK
<1> QED BY <1>1, <1>3, <1>4, <1>5, <1>7 DEF LoneInv

\* path.tmp never shares its inode with path.
LEMMA LoneOpens ==
    ASSUME NEW w, Writers = {w}, LoneInv(w), Open(w)
    PROVE  LoneInv(w)'
<1> DEFINE f == file[w]
           n == IF dir[f].tmp # 0 THEN dir[f].tmp
                ELSE CHOOSE m \in Inodes \ inUse(f) : TRUE
<1>1. /\ wpc[w] = "open" /\ UNCHANGED <<store, file, items, made, snap, acked, refused>>
      /\ fd' = [fd EXCEPT ![w] = n] /\ wpc' = [wpc EXCEPT ![w] = "write"]
      /\ dir' = [dir EXCEPT ![f].tmp = n] /\ content' = [content EXCEPT ![f][n] = Empty]
  BY DEF Open, goto, setText
<1>2. /\ f \in Files /\ fd[w] = 0 /\ dir[f] \in [main : Inodes \cup {0}, tmp : Inodes \cup {0}]
      /\ dir[f].main = 0 \/ dir[f].main # dir[f].tmp
  BY <1>1 DEF LoneInv, LoneTypeOK, FileTypeOK, SaveOK, DiskOK
<1>3. n \in Inodes /\ n # dir[f].main /\ n # 0
  <2>1. CASE dir[f].tmp # 0
    BY <1>2, <2>1, LoneInodes
  <2>2. CASE dir[f].tmp = 0
    <3>1. Inodes = 1..3 /\ inUse(f) \subseteq {dir[f].main, 0}
      BY <1>2, <2>2, LoneInodes DEF inUse, opened
    <3>2. dir[f].main \in inUse(f)
      BY DEF inUse
    <3>3. \E m \in Inodes \ inUse(f) : TRUE
      BY <3>1
    <3>4. n \in Inodes \ inUse(f)
      BY <2>2, <3>3
    <3> QED BY <3>1, <3>2, <3>4
  <2> QED BY <2>1, <2>2
<1> HIDE DEF n
<1>4. \A g \in Files : /\ dir'[g].main = dir[g].main
                       /\ dir'[g].tmp = (IF g = f THEN n ELSE dir[g].tmp)
                       /\ dir[g].main # 0 => content'[g][dir[g].main] = content[g][dir[g].main]
  BY <1>1, <1>2, <1>3 DEF LoneInv, LoneTypeOK, FileTypeOK
<1>5. /\ \A g \in Files : textOf(g)' = textOf(g) /\ OnDisk(g)' = OnDisk(g)
      /\ savedIds' = savedIds /\ AcknowledgedOnDisk'
  BY <1>1, <1>4, FilesKept DEF LoneInv
<1>6. LoneTypeOK' /\ IndexesAgree'
  <2>1. Empty \in Texts
    BY MemoryInTexts, <1>2 DEF LoneInv, LoneTypeOK, FileTypeOK
  <2>2. content' \in [Files -> [Inodes -> Texts]] /\ fd' \in [Writers -> Inodes \cup {0}]
    BY <1>1, <1>2, <1>3, <2>1 DEF LoneInv, LoneTypeOK, FileTypeOK
  <2>3. dir' \in [Files -> [main : Inodes \cup {0}, tmp : Inodes \cup {0}]]
    BY <1>1, <1>2, <1>3 DEF LoneInv, LoneTypeOK, FileTypeOK
  <2> QED BY <1>1, <2>2, <2>3, MemoryKept DEF LoneInv, LoneTypeOK, FileTypeOK, WriterStages
<1>7. DiskOK(w)' /\ LinksOK'
  <2>1. \A g \in Files : dir'[g].main = 0 \/ dir'[g].main # dir'[g].tmp
    BY <1>3, <1>4 DEF LoneInv, DiskOK
  <2> QED BY <1>1, <1>5, <2>1, MemoryKept DEF LoneInv, DiskOK, LinksOK, store, Files
<1>8. SaveOK(w)'
  <2>1. wpc'[w] = "write" /\ fd'[w] = n /\ content'[f][n] = Empty /\ dir'[f].tmp = n
    BY <1>1, <1>2, <1>3, <1>4 DEF LoneInv, LoneTypeOK, FileTypeOK
  <2> QED BY <1>1, <1>2, <1>3, <2>1, MemoryKept DEF LoneInv, SaveOK
<1> QED BY <1>1, <1>5, <1>6, <1>7, <1>8 DEF LoneInv

LEMMA OverEmpty ==
    ASSUME NEW entries
    PROVE  Over(Empty, entries) = {[state |-> "text", entries |-> entries]}
BY DEF Over, Empty

\* The text is written to the end, or cut short; path is another inode.
LEMMA LoneWrites ==
    ASSUME NEW w, Writers = {w}, LoneInv(w), Write(w) \/ WriteErrs(w)
    PROVE  LoneInv(w)'
<1>0. PICK f \in Files : f = file[w]
  BY DEF LoneInv, LoneTypeOK, FileTypeOK
<1>a. PICK n \in Inodes \cup {0} : n = dir[f].tmp
  BY DEF LoneInv, LoneTypeOK, FileTypeOK
<1>1. /\ wpc[w] \in {"open", "write"} /\ UNCHANGED <<store, items, dir, acked, refused>>
      /\ fd' = [fd EXCEPT ![w] = 0] /\ snap[w] = InMemory(f)
  BY <1>0 DEF Write, WriteErrs, LoneInv, SaveOK
<1>2. /\ f \in Files /\ dir[f] \in [main : Inodes \cup {0}, tmp : Inodes \cup {0}]
      /\ dir[f].main = 0 \/ dir[f].main # n
  BY <1>0, <1>a DEF LoneInv, LoneTypeOK, FileTypeOK, DiskOK
<1>3. \/ content' = content
      \/ n \in Inodes /\ \E text \in Texts : content' = [content EXCEPT ![f][n] = text]
  <2>1. wpc[w] = "write" => fd[w] = n /\ n \in Inodes /\ content[f][n] = Empty
    BY <1>0, <1>a DEF LoneInv, SaveOK
  <2>2. \A s \in {"text", "garbled"} : [state |-> s, entries |-> snap[w]] \in Texts
    BY <1>1, <1>2, MemoryInTexts DEF LoneInv, LoneTypeOK, FileTypeOK
  <2>3. CASE Write(w)
    <3>1. \E text \in Over(content[f][n], snap[w]) : content' = [content EXCEPT ![f][n] = text]
      BY <1>0, <2>1, <2>3 DEF Write, setText
    <3>2. Over(content[f][n], snap[w]) = {[state |-> "text", entries |-> snap[w]]}
      BY <2>1, <2>3, OverEmpty DEF Write
    <3> QED BY <2>1, <2>2, <2>3, <3>1, <3>2 DEF Write
  <2>4. CASE WriteErrs(w)
    BY <1>0, <1>1, <2>1, <2>2, <2>4 DEF WriteErrs, setText
  <2> QED BY <2>3, <2>4
<1>4. \A g \in Files : /\ dir'[g].main = dir[g].main
                       /\ dir[g].main # 0 => content'[g][dir[g].main] = content[g][dir[g].main]
  BY <1>1, <1>2, <1>3 DEF LoneInv, LoneTypeOK, FileTypeOK
<1>5. /\ \A g \in Files : textOf(g)' = textOf(g) /\ OnDisk(g)' = OnDisk(g)
      /\ savedIds' = savedIds /\ AcknowledgedOnDisk'
  BY <1>1, <1>4, FilesKept DEF LoneInv
<1>6. content' \in [Files -> [Inodes -> Texts]] /\ fd' \in [Writers -> Inodes \cup {0}]
  <2>1. content \in [Files -> [Inodes -> Texts]]
    BY DEF LoneInv, LoneTypeOK, FileTypeOK
  <2>2. content' \in [Files -> [Inodes -> Texts]]
    BY <1>3, <2>1
  <2> QED BY <1>1, <2>2 DEF LoneInv, LoneTypeOK, FileTypeOK
<1>7. /\ \A g \in Files : dir'[g].main = 0 \/ dir'[g].main # dir'[g].tmp
      /\ \A g \in Files : textOf(g)'.state # "garbled"
      /\ OnDisk("users")' \subseteq InMemory("users")' /\ OnDisk("deleted")' \subseteq deleted'
      /\ LinksOK' /\ IndexesAgree'
  BY <1>1, <1>5, MemoryKept DEF LoneInv, DiskOK, LinksOK, store, Files
<1>8. CASE return(w) /\ file[w] # "urls"
  <2>1. /\ wpc' = [wpc EXCEPT ![w] = "idle"] /\ file' = [file EXCEPT ![w] = "urls"]
        /\ made' = [made EXCEPT ![w] = {}] /\ snap' = [snap EXCEPT ![w] = {}]
    BY <1>8 DEF return
  <2>2. LoneTypeOK'
    BY <1>1, <1>6, <2>1, MemoryKept DEF LoneInv, LoneTypeOK, FileTypeOK, WriterStages, Files
  <2>3. wpc'[w] = "idle" /\ file'[w] = "urls" /\ made'[w] = {} /\ fd'[w] = 0
    BY <1>1, <2>1 DEF LoneInv, LoneTypeOK, FileTypeOK
  <2>4. DiskOK(w)'
    BY <1>1, <1>5, <1>7, <1>8, <2>3, MemoryKept DEF LoneInv, DiskOK, Files
  <2>5. SaveOK(w)'
    BY <2>3 DEF SaveOK
  <2> QED BY <1>1, <1>5, <1>7, <2>2, <2>4, <2>5 DEF LoneInv
<1>9. CASE /\ UNCHANGED <<file, made>> /\ snap' \in {snap, [snap EXCEPT ![w] = {}]}
           /\ \/ wpc' = [wpc EXCEPT ![w] = "rollback"] /\ file[w] = "urls"
              \/ wpc' = [wpc EXCEPT ![w] = "rename"] /\ Write(w)
  <2>1. LoneTypeOK'
    BY <1>1, <1>6, <1>9, MemoryKept DEF LoneInv, LoneTypeOK, FileTypeOK, WriterStages
  <2>2. fd'[w] = 0 /\ wpc'[w] \in {"rollback", "rename"}
    BY <1>1, <1>9 DEF LoneInv, LoneTypeOK, FileTypeOK
  <2>3. DiskOK(w)'
    BY <1>1, <1>5, <1>7, <1>9, MemoryKept DEF LoneInv, DiskOK, Files
  <2>4. SaveOK(w)'
    <3>1. CASE wpc'[w] = "rollback"
      <4>1. file[w] = "urls"
        BY <1>9, <3>1 DEF LoneInv, LoneTypeOK, FileTypeOK
      <4>2. made[w] \subseteq InMemory(file[w]) /\ InMemory(file[w])' = InMemory(file[w])
        BY <1>0, <1>1, <1>9, MemoryKept DEF LoneInv, SaveOK
      <4> QED BY <1>9, <2>2, <3>1, <4>1, <4>2 DEF SaveOK
    <3>2. CASE wpc'[w] = "rename"
      <4>1. Write(w)
        BY <1>9, <3>2 DEF LoneInv, LoneTypeOK, FileTypeOK
      <4>2. n # 0 /\ fd[w] = n /\ content[f][n] = Empty
        BY <1>0, <1>a, <4>1 DEF Write, LoneInv, SaveOK
      <4>3. content' = [content EXCEPT ![f][n] = [state |-> "text", entries |-> InMemory(f)]]
        <5>1. \E text \in Over(content[f][n], snap[w]) : content' = [content EXCEPT ![f][n] = text]
          BY <1>0, <4>1, <4>2 DEF Write, setText
        <5>2. Over(content[f][n], snap[w]) = {[state |-> "text", entries |-> snap[w]]}
          BY <4>2, OverEmpty
        <5> QED BY <1>1, <5>1, <5>2
      <4>4. content'[f][n] = [state |-> "text", entries |-> InMemory(f)]
        BY <1>2, <4>2, <4>3 DEF LoneInv, LoneTypeOK, FileTypeOK
      <4> QED BY <1>0, <1>a, <1>1, <1>2, <1>9, <2>2, <3>2, <4>2, <4>4, MemoryKept DEF LoneInv, SaveOK
    <3> QED BY <2>2, <3>1, <3>2
  <2> QED BY <1>1, <1>5, <1>7, <2>1, <2>3, <2>4 DEF LoneInv
<1> QED BY <1>8, <1>9 DEF Write, WriteErrs, fail, goto

\* The rename puts the whole of memory into place.
LEMMA LoneRenames ==
    ASSUME NEW w, Writers = {w}, LoneInv(w), Rename(w)
    PROVE  LoneInv(w)'
<1>0. PICK f \in Files : f = file[w]
  BY DEF LoneInv, LoneTypeOK, FileTypeOK
<1>a. PICK n \in Inodes \cup {0} : n = dir[f].tmp
  BY DEF LoneInv, LoneTypeOK, FileTypeOK
<1>1. /\ wpc[w] = "rename" /\ n # 0 /\ fd[w] = 0 /\ UNCHANGED <<store, items, fd, refused>>
      /\ content[f][n] = [state |-> "text", entries |-> InMemory(f)]
      /\ made[w] \subseteq InMemory(f)
  BY <1>0, <1>a DEF Rename, LoneInv, SaveOK
<1>2. /\ dir' = [dir EXCEPT ![f] = [main |-> n, tmp |-> 0]]
      /\ content' = [content EXCEPT ![f] =
            [m \in Inodes |-> IF m \in {n, 0} \cup opened(f) THEN @[m] ELSE Empty]]
      /\ acked' = [acked EXCEPT ![f] = @ \cup made[w]]
      /\ wpc' = [wpc EXCEPT ![w] = "idle"] /\ file' = [file EXCEPT ![w] = "urls"]
      /\ made' = [made EXCEPT ![w] = {}] /\ snap' = [snap EXCEPT ![w] = {}]
  BY <1>0, <1>a DEF Rename, setDir, return
<1>3. f \in Files /\ n \in Inodes /\ dir \in [Files -> [main : Inodes \cup {0}, tmp : Inodes \cup {0}]]
      /\ content \in [Files -> [Inodes -> Texts]] /\ Empty \in Texts
  BY <1>1, MemoryInTexts DEF LoneInv, LoneTypeOK, FileTypeOK
<1>4. /\ dir'[f] = [main |-> n, tmp |-> 0] /\ content'[f][n] = content[f][n]
      /\ \A g \in Files \ {f} : dir'[g] = dir[g] /\ content'[g] = content[g]
  BY <1>2, <1>3
<1>5. /\ textOf(f)' = [state |-> "text", entries |-> InMemory(f)] /\ OnDisk(f)' = InMemory(f)
      /\ \A g \in Files \ {f} : textOf(g)' = textOf(g) /\ OnDisk(g)' = OnDisk(g)
  BY <1>1, <1>4 DEF textOf, OnDisk
<1>6. /\ wpc'[w] = "idle" /\ file'[w] = "urls" /\ made'[w] = {} /\ fd'[w] = 0
      /\ acked'[f] = acked[f] \cup made[w] /\ \A g \in Files \ {f} : acked'[g] = acked[g]
  BY <1>1, <1>2, <1>3 DEF LoneInv, LoneTypeOK, FileTypeOK
<1>7. LoneTypeOK' /\ IndexesAgree'
  <2>1. content' \in [Files -> [Inodes -> Texts]]
    BY <1>2, <1>3
  <2>2. dir' \in [Files -> [main : Inodes \cup {0}, tmp : Inodes \cup {0}]]
    BY <1>2, <1>3
  <2> QED BY <1>1, <1>2, <1>3, <2>1, <2>2, MemoryKept
          DEF LoneInv, LoneTypeOK, FileTypeOK, WriterStages, Files
<1>8. OnDisk(f) \subseteq InMemory(f)
  BY <1>3, InMemoryIs DEF LoneInv, DiskOK, Files
<1>9. DiskOK(w)'
  <2>1. \A g \in Files : dir'[g].main = 0 \/ dir'[g].main # dir'[g].tmp
    BY <1>1, <1>4 DEF LoneInv, DiskOK
  <2>2. \A g \in Files : textOf(g)'.state # "garbled"
    BY <1>5 DEF LoneInv, DiskOK
  <2>3. OnDisk("urls")' = stored
    BY <1>0, <1>3, <1>5, InMemoryIs DEF LoneInv, DiskOK, Files
  <2>4. OnDisk("users")' \subseteq InMemory("users") /\ OnDisk("deleted")' \subseteq deleted
    BY <1>3, <1>5, InMemoryIs DEF LoneInv, DiskOK, Files
  <2> QED BY <1>1, <1>6, <2>1, <2>2, <2>3, <2>4, MemoryKept DEF DiskOK, store, Files
<1>10. LinksOK'
  <2>1. OnDisk("urls") \subseteq OnDisk("urls")'
    BY <1>3, <1>5, <1>8 DEF Files
  <2>2. savedIds \subseteq savedIds'
    BY <2>1 DEF savedIds
  <2> QED BY <1>1, <2>2 DEF LoneInv, LinksOK, store
<1>11. AcknowledgedOnDisk'
  <2>1. acked'[f] \subseteq OnDisk(f)'
    BY <1>1, <1>3, <1>5, <1>6, <1>8 DEF LoneInv, AcknowledgedOnDisk
  <2> QED BY <1>5, <1>6, <2>1 DEF LoneInv, AcknowledgedOnDisk
<1>12. SaveOK(w)'
  BY <1>6 DEF SaveOK
<1> QED BY <1>1, <1>7, <1>9, <1>10, <1>11, <1>12 DEF LoneInv

\* What a rollback takes out of memory is not in the file and not linked.
LEMMA LoneRollsBack ==
    ASSUME NEW w, Writers = {w}, LoneInv(w), NEW item \in Ids \X Urls, Rollback(w, item)
    PROVE  LoneInv(w)'
<1>1. /\ wpc[w] = "rollback" /\ file[w] = "urls" /\ item \in made[w] /\ fd[w] = 0
      /\ Delete(item[1]) /\ UNCHANGED <<items, fd, dir, content, acked, refused>>
  BY DEF Rollback, LoneInv, SaveOK, diskVars
<1>2. /\ \A f \in Files : textOf(f)' = textOf(f) /\ OnDisk(f)' = OnDisk(f)
      /\ savedIds' = savedIds /\ AcknowledgedOnDisk'
  BY <1>1, FilesKept DEF LoneInv
<1>3. made[w] \subseteq stored /\ OnDisk("urls") = stored \ made[w]
  BY <1>1, InMemoryIs DEF LoneInv, SaveOK, DiskOK
<1>4. StoreTypeOK' /\ IndexesAgree' /\ stored' = stored \ {item}
  BY <1>1, <1>3, DeleteTakesOut DEF LoneInv, LoneTypeOK, FileTypeOK
<1>5. item[1] \notin savedIds
  <2>1. ASSUME NEW u \in Urls, <<item[1], u>> \in stored PROVE <<item[1], u>> = item
    BY <1>1, <1>3, <2>1 DEF stored
  <2> QED BY <1>1, <1>3, <2>1 DEF savedIds
<1>6. UNCHANGED <<user, deleted>>
  BY <1>1, <1>5 DEF Delete, LoneInv, LinksOK, LoneTypeOK, FileTypeOK, StoreTypeOK
<1>7. /\ file'[w] = "urls" /\ made'[w] = made[w] \ {item} /\ wpc'[w] \in {"rollback", "idle"}
      /\ wpc'[w] = "idle" => made'[w] = {}
      /\ LoneTypeOK'
  <2>1. CASE return(w) /\ made[w] = {item}
    BY <1>1, <1>4, <2>1 DEF return, LoneInv, LoneTypeOK, FileTypeOK, WriterStages, Files
  <2>2. CASE made' = [made EXCEPT ![w] = @ \ {item}] /\ UNCHANGED <<wpc, file, snap>>
    BY <1>1, <1>4, <2>2 DEF LoneInv, LoneTypeOK, FileTypeOK
  <2> QED BY <2>1, <2>2 DEF Rollback
<1>8. InMemory("users")' = InMemory("users") /\ InMemory("urls")' = stored'
  BY <1>6 DEF InMemory, stored
<1>9. DiskOK(w)'
  <2>1. OnDisk("urls")' = stored' \ made'[w]
    BY <1>1, <1>2, <1>3, <1>4, <1>7 DEF Files
  <2> QED BY <1>1, <1>2, <1>6, <1>7, <1>8, <2>1 DEF LoneInv, DiskOK, Files
<1>10. LinksOK'
  BY <1>2, <1>6 DEF LoneInv, LinksOK
<1>11. SaveOK(w)'
  BY <1>1, <1>3, <1>4, <1>7, <1>8 DEF SaveOK
<1> QED BY <1>1, <1>2, <1>4, <1>7, <1>9, <1>10, <1>11 DEF LoneInv

\* A start finds every file readable, and in the files a memory that was once
\* consistent: no record twice, no link and no deletion without its record.
LEMMA LoneRestarts ==
    ASSUME NEW w, Writers = {w}, LoneInv(w), Restart
    PROVE  LoneInv(w)'
<1>1. /\ UNCHANGED <<dir, content, acked>>
      /\ refused' = \E f \in Files : textOf(f).state = "garbled"
      /\ data' = [i \in Ids |-> IF \E u \in Urls : <<i, u>> \in OnDisk("urls")
                                THEN CHOOSE u \in Urls : <<i, u>> \in OnDisk("urls") ELSE NoUrl]
      /\ original' = [u \in Urls |-> IF \E i \in Ids : <<i, u>> \in OnDisk("urls")
                                     THEN CHOOSE i \in Ids : <<i, u>> \in OnDisk("urls") ELSE NoId]
      /\ user' = [u \in Users |-> {i \in Ids : <<u, i>> \in OnDisk("users")}]
      /\ known' = {u \in Users : user'[u] # {}} /\ deleted' = OnDisk("deleted")
  BY DEF Restart, diskVars
<1>2. /\ wpc' = [v \in Writers |-> "idle"] /\ file' = [v \in Writers |-> "urls"]
      /\ items' = [v \in Writers |-> {}] /\ made' = [v \in Writers |-> {}]
      /\ snap' = [v \in Writers |-> {}] /\ fd' = [v \in Writers |-> 0]
  BY DEF Restart
<1>3. /\ wpc'[w] = "idle" /\ file'[w] = "urls" /\ made'[w] = {} /\ fd'[w] = 0
  BY <1>2
<1>4. ~refused'
  BY <1>1 DEF LoneInv, DiskOK
<1>5. /\ \A f \in Files : textOf(f)' = textOf(f) /\ OnDisk(f)' = OnDisk(f)
      /\ savedIds' = savedIds /\ AcknowledgedOnDisk'
  BY <1>1, FilesKept DEF LoneInv
<1>6. /\ OnDisk("urls") \subseteq stored
      /\ OnDisk("users") \subseteq {e \in Users \X Ids : e[2] \in user[e[1]]}
      /\ OnDisk("deleted") \subseteq deleted
  BY InMemoryIs DEF LoneInv, DiskOK
<1>7. ASSUME NEW i \in Ids, NEW u \in Urls, NEW j \in Ids, NEW v \in Urls,
             <<i, u>> \in OnDisk("urls"), <<j, v>> \in OnDisk("urls")
      PROVE  i = j <=> u = v
  <2>1. data[i] = u /\ data[j] = v
    BY <1>6, <1>7 DEF stored
  <2> QED BY <2>1 DEF LoneInv, IndexesAgree
<1>8. ASSUME NEW i \in Ids, NEW u \in Urls
      PROVE  /\ data'[i] = u <=> <<i, u>> \in OnDisk("urls")
             /\ original'[u] = i <=> <<i, u>> \in OnDisk("urls")
  BY <1>1, <1>7, SentinelsAssumption
<1>9. stored' = OnDisk("urls")
  <2>1. stored' = {e \in Ids \X Urls : data'[e[1]] = e[2]}
    BY DEF stored
  <2>2. ASSUME NEW e \in Ids \X Urls PROVE data'[e[1]] = e[2] <=> e \in OnDisk("urls")
    <3>1. e[1] \in Ids /\ e[2] \in Urls /\ e = <<e[1], e[2]>>
      OBVIOUS
    <3> QED BY <1>8, <3>1
  <2>3. OnDisk("urls") \subseteq Ids \X Urls
    BY <1>6 DEF stored
  <2> QED BY <2>1, <2>2, <2>3
<1>10. IndexesAgree'
  BY <1>8 DEF IndexesAgree
<1>11. LoneTypeOK'
  <2>1. data' \in [Ids -> Urls \cup {NoUrl}] /\ original' \in [Urls -> Ids \cup {NoId}]
    BY <1>1
  <2>2. user' \in [Users -> SUBSET Ids] /\ known' \subseteq Users /\ deleted' \subseteq Ids
    BY <1>1, <1>6 DEF LoneInv, LoneTypeOK, FileTypeOK, StoreTypeOK
  <2>3. refused' \in BOOLEAN
    BY <1>1
  <2> QED BY <1>1, <1>2, <2>1, <2>2, <2>3
          DEF LoneInv, LoneTypeOK, FileTypeOK, StoreTypeOK, WriterStages, Files
<1>12. DiskOK(w)'
  <2>1. InMemory("users")' = {e \in Users \X Ids : e[2] \in user'[e[1]]}
    BY DEF InMemory
  <2>2. ASSUME NEW e \in OnDisk("users") PROVE e \in Users \X Ids /\ e[2] \in user'[e[1]]
    <3>1. e \in Users \X Ids /\ e[1] \in Users /\ e[2] \in Ids /\ e = <<e[1], e[2]>>
      BY <1>6
    <3> QED BY <1>1, <3>1
  <2>3. \A f \in Files : dir'[f].main = 0 \/ dir'[f].main # dir'[f].tmp
    BY <1>1 DEF LoneInv, DiskOK
  <2>4. \A f \in Files : textOf(f)'.state # "garbled"
    BY <1>5 DEF LoneInv, DiskOK
  <2> QED BY <1>1, <1>3, <1>5, <1>9, <2>1, <2>2, <2>3, <2>4 DEF DiskOK, Files
<1>13. LinksOK'
  <2>1. ASSUME NEW u \in Users, NEW i \in user'[u] PROVE i \in user[u]
    <3>1. i \in Ids /\ <<u, i>> \in OnDisk("users")
      BY <1>1, <2>1
    <3> QED BY <1>6, <3>1
  <2> QED BY <1>1, <1>5, <1>6, <2>1 DEF LoneInv, LinksOK
<1>14. SaveOK(w)'
  BY <1>3 DEF SaveOK
<1> QED BY <1>4, <1>5, <1>10, <1>11, <1>12, <1>13, <1>14 DEF LoneInv

LEMMA LoneInductive ==
    ASSUME NEW w, Writers = {w}, ~RenameFails, LoneInv(w), [FileNext]_fileVars
    PROVE  LoneInv(w)'
<1>1. CASE UNCHANGED fileVars
  <2>1. /\ UNCHANGED <<store, wpc, file, items, made, snap, fd, dir, content, acked, refused>>
    BY <1>1 DEF fileVars, writerVars, diskVars
  <2>2. /\ \A f \in Files : textOf(f)' = textOf(f) /\ OnDisk(f)' = OnDisk(f)
        /\ savedIds' = savedIds /\ AcknowledgedOnDisk'
    BY <2>1, FilesKept DEF LoneInv
  <2>3. LoneTypeOK' /\ IndexesAgree'
    BY <2>1, MemoryKept DEF LoneInv, LoneTypeOK, FileTypeOK
  <2>4. DiskOK(w)' /\ LinksOK'
    BY <2>1, <2>2, MemoryKept DEF LoneInv, DiskOK, LinksOK, store, Files
  <2>5. SaveOK(w)'
    BY <2>1, MemoryKept DEF LoneInv, SaveOK, LoneTypeOK, FileTypeOK
  <2> QED BY <2>1, <2>2, <2>3, <2>4, <2>5 DEF LoneInv
<1>2. CASE Restart
  BY <1>2, LoneRestarts
<1>3. CASE WriterStep(w)
  <2>1. ~Remove(w) /\ ~RenameErrs(w) /\ ~RemoveErrs(w)
    BY DEF Remove, RenameErrs, RemoveErrs, LoneInv, SaveOK
  <2> QED BY <1>3, <2>1, LoneBegins, LonePuts, LoneSnapshots, LoneOpens, LoneWrites, LoneRenames,
             LoneRollsBack DEF WriterStep
<1> QED BY <1>1, <1>2, <1>3 DEF FileNext

\* With one writer at a time, whose writes may fail half-way, and a crash and a
\* restart at any point: the state keeps its types; every URL, link and deletion
\* whose saving was reported a success is in its file; no start ever refuses a
\* file; and between two operations the files follow memory.
THEOREM CrashesLoseNothing ==
    ASSUME NEW w, Writers = {w}, ~RenameFails
    PROVE  FileSpec => [](FileTypeOK /\ AcknowledgedOnDisk /\ StartsAgain /\ FilesFollowMemory)
<1>1. FileInit => LoneInv(w)
  BY LoneInitially
<1>2. LoneInv(w) /\ [FileNext]_fileVars => LoneInv(w)'
  BY LoneInductive
<1>3. LoneInv(w) => FileTypeOK /\ AcknowledgedOnDisk /\ StartsAgain /\ FilesFollowMemory
  BY InMemoryIs DEF LoneInv, LoneTypeOK, StartsAgain, FilesFollowMemory, SaveOK, DiskOK
<1> QED BY <1>1, <1>2, <1>3, PTL DEF FileSpec

\* Between two operations of a lone writer, whatever failed or crashed before,
\* the URL file lists exactly what memory holds, and no link or deletion is in a
\* file that is not in memory.
THEOREM FilesAlwaysFollowMemory ==
    ASSUME NEW w, Writers = {w}, ~RenameFails
    PROVE  FileSpec => []FilesFollowMemory
<1>1. LoneInv(w) => FilesFollowMemory
  BY InMemoryIs DEF LoneInv, FilesFollowMemory, SaveOK, DiskOK
<1> QED BY <1>1, LoneInitially, LoneInductive, PTL DEF FileSpec

\* The three files are saved one by one, yet at any point at which the process
\* is killed every link and every deletion in them is of a URL that is in the
\* URL file: a start never loads a link to nothing.
SavedLinksResolve ==
    /\ OnDisk("deleted") \subseteq savedIds
    /\ \A e \in OnDisk("users") : e[2] \in savedIds

THEOREM StartsFindEveryLinksUrl ==
    ASSUME NEW w, Writers = {w}, ~RenameFails
    PROVE  FileSpec => []SavedLinksResolve
<1>1. LoneInv(w) => SavedLinksResolve
  BY InMemoryIs DEF LoneInv, DiskOK, LinksOK, SavedLinksResolve
<1> QED BY <1>1, LoneInitially, LoneInductive, PTL DEF FileSpec

\* With one writer at a time a crash takes no acknowledged URL out of memory
\* either: the start that follows it has loaded them all.
THEOREM AcknowledgedReadableAgain ==
    ASSUME NEW w, Writers = {w}, ~RenameFails
    PROVE  FileSpec => []AcknowledgedInMemory
<1>1. LoneInv(w) => AcknowledgedInMemory
  BY InMemoryIs DEF LoneInv, DiskOK, AcknowledgedOnDisk, AcknowledgedInMemory, Files
<1> QED BY <1>1, LoneInitially, LoneInductive, PTL DEF FileSpec
=============================================================================
