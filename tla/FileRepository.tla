--------------------------- MODULE FileRepository ---------------------------
(***************************************************************************)
(* The file-backed repository, internal/repository/file.go: a              *)
(* MemoryRepository whose writing operations end with a save of one of     *)
(* three files.  A save takes a copy of the maps and runs writeJSONAtomic  *)
(* without any lock, so saves of concurrent handlers interleave system     *)
(* call by system call, on the one name path.tmp.                          *)
(*                                                                         *)
(* The file system is modelled by inodes: a directory entry names one, an  *)
(* open file holds one, and a rename moves the name and not the open file. *)
(* A file's text is the set of entries it lists; the process may be killed *)
(* and started again at any point (the machine does not lose power: what   *)
(* was written stays written).                                             *)
(***************************************************************************)
EXTENDS MemoryRepository

CONSTANTS
    Writers,      \* goroutines that call the repository
    MaxBatch,     \* bound: items of one PutBatchIfAbsent
    WriteFails,   \* os.WriteFile may fail, before or half-way through
    RenameFails,  \* os.Rename and the os.Remove after it may fail
    Crashes       \* the process may be killed and started again

Files  == {"urls", "users", "deleted"}
Inodes == 1 .. Cardinality(Writers) + 2

ASSUME FileAssumption ==
    /\ IsFiniteSet(Writers)
    /\ {MaxBatch} \subseteq Nat \ {0}
    /\ {WriteFails, RenameFails, Crashes} \subseteq BOOLEAN

VARIABLES
    wpc,      \* the step a writer takes next
    file,     \* the file its operation saves
    items,    \* items its PutBatchIfAbsent has not come to, or records it has found
    made,     \* entries its operation has added to memory
    snap,     \* the copy of the maps it saves
    fd,       \* the inode it has open
    dir,      \* file -> inodes of path and of path.tmp, 0 for none
    content,  \* file -> inode -> text
    acked,    \* history: file -> entries whose saving was reported a success
    refused   \* the last start failed on an unreadable file

writerVars == <<wpc, file, items, made, snap, fd>>
diskVars   == <<dir, content>>
fileVars   == <<store, writerVars, diskVars, acked, refused>>

WriterStages == {"idle", "put", "link", "snapshot", "open", "write", "rename",
                 "remove", "renameAgain", "rollback"}

\* A garbled text keeps the entries that tell how long it is.
Texts == [state : {"empty", "text", "garbled"},
          entries : (SUBSET (Ids \X Urls)) \cup (SUBSET (Users \X Ids)) \cup (SUBSET Ids)]
Empty == [state |-> "empty", entries |-> {}]

FileTypeOK ==
    /\ StoreTypeOK
    /\ wpc     \in [Writers -> WriterStages]
    /\ file    \in [Writers -> Files]
    /\ items   \in [Writers -> SUBSET (Ids \X Urls)]
    /\ fd      \in [Writers -> Inodes \cup {0}]
    /\ dir     \in [Files -> [main : Inodes \cup {0}, tmp : Inodes \cup {0}]]
    /\ content \in [Files -> [Inodes -> Texts]]
    /\ refused \in BOOLEAN

FileInit ==
    /\ StoreInit
    /\ wpc     = [w \in Writers |-> "idle"]
    /\ file    = [w \in Writers |-> "urls"]
    /\ items   = [w \in Writers |-> {}]
    /\ made    = [w \in Writers |-> {}]
    /\ snap    = [w \in Writers |-> {}]
    /\ fd      = [w \in Writers |-> 0]
    /\ dir     = [f \in Files |-> [main |-> 0, tmp |-> 0]]
    /\ content = [f \in Files |-> [n \in Inodes |-> Empty]]
    /\ acked   = [f \in Files |-> {}]
    /\ refused = FALSE

goto(w, stage) == wpc' = [wpc EXCEPT ![w] = stage]

\* What Items, UserItems and DeletedItems copy for the save of file f.
InMemory(f) ==
    CASE f = "urls"    -> {e \in Ids \X Urls : data[e[1]] = e[2]}
      [] f = "users"   -> {e \in Users \X Ids : e[2] \in user[e[1]]}
      [] f = "deleted" -> deleted

\* What load, loadUsers and loadDeleted find: a missing or empty file is no
\* error and holds nothing, path.tmp is not looked at.
textOf(f) == IF dir[f].main = 0 THEN Empty ELSE content[f][dir[f].main]
OnDisk(f) == IF textOf(f).state = "text" THEN textOf(f).entries ELSE {}

-----------------------------------------------------------------------------
(* The operations up to their save *)

CanStart(w) == wpc[w] = "idle" /\ ~refused

\* The operation returns: its locals are gone.
return(w) ==
    /\ wpc'  = [wpc EXCEPT ![w] = "idle"]
    /\ file' = [file EXCEPT ![w] = "urls"]
    /\ made' = [made EXCEPT ![w] = {}]
    /\ snap' = [snap EXCEPT ![w] = {}]

\* The items of a batch have different ids and different URLs.
Items == {batch \in SUBSET (Ids \X Urls) :
            /\ batch # {} /\ Cardinality(batch) <= MaxBatch
            /\ \A a, b \in batch : a # b => a[1] # b[1] /\ a[2] # b[2]}

\* PutIfAbsent (one item) and PutBatchIfAbsent.
BeginPut(w, batch) ==
    /\ CanStart(w)
    /\ items' = [items EXCEPT ![w] = batch]
    /\ goto(w, "put")
    /\ UNCHANGED <<store, file, made, snap, fd, diskVars, acked, refused>>

\* Mutant: the ids that were there already count as created.
PutItemMine(w, item) ==
    /\ wpc[w] = "put" /\ item \in items[w]
    /\ items' = [items EXCEPT ![w] = @ \ {item}]
    /\ IF Fresh(item[1], item[2]) THEN PutIfAbsent(item[1], item[2]) ELSE UNCHANGED store
    /\ made' = [made EXCEPT ![w] = @ \cup {item}]
    /\ goto(w, IF items[w] # {item} THEN "put" ELSE "snapshot")
    /\ UNCHANGED <<file, snap, fd, diskVars, acked, refused>>

\* mem.PutIfAbsent of each item, each under the lock of its own.  When nothing
\* was created there is nothing to save.
PutItem(w, item) ==
    /\ wpc[w] = "put" /\ item \in items[w]
    /\ items' = [items EXCEPT ![w] = @ \ {item}]
    /\ IF Fresh(item[1], item[2])
       THEN PutIfAbsent(item[1], item[2]) /\ made' = [made EXCEPT ![w] = @ \cup {item}]
       ELSE UNCHANGED <<store, made>>
    /\ goto(w, IF items[w] # {item} THEN "put" ELSE IF made'[w] # {} THEN "snapshot" ELSE "idle")
    /\ UNCHANGED <<file, snap, fd, diskVars, acked, refused>>

\* The service has stored the records or has found them stored: it will link them.
LookUp(w) ==
    /\ CanStart(w)
    /\ \E found \in SUBSET InMemory("urls") \ {{}} : items' = [items EXCEPT ![w] = found]
    /\ goto(w, "link")
    /\ UNCHANGED <<store, file, made, snap, fd, diskVars, acked, refused>>

\* AddUserURLs does not ask for the ids again: the put of another writer whose
\* save failed may have been rolled back since.
BeginAddUserURLs(w, u) ==
    LET ids == {e[1] : e \in items[w]}
    IN  /\ wpc[w] = "link"
        /\ AddUserURLs(u, ids)
        /\ items' = [items EXCEPT ![w] = {}]
        /\ file' = [file EXCEPT ![w] = "users"]
        /\ made' = [made EXCEPT ![w] = {u} \X ids]
        /\ goto(w, "snapshot")
        /\ UNCHANGED <<snap, fd, diskVars, acked, refused>>

BeginMarkDeleted(w, u, ids) ==
    /\ CanStart(w) /\ ids # {}
    /\ MarkDeleted(u, ids)
    /\ file' = [file EXCEPT ![w] = "deleted"]
    /\ made' = [made EXCEPT ![w] = ids \cap user[u]]
    /\ goto(w, "snapshot")
    /\ UNCHANGED <<items, snap, fd, diskVars, acked, refused>>

Begin(w) ==
    \/ \E batch \in Items : BeginPut(w, batch)
    \/ \E u \in Users :
          \/ LookUp(w) \/ BeginAddUserURLs(w, u)
          \/ \E ids \in SUBSET Ids : BeginMarkDeleted(w, u, ids)

-----------------------------------------------------------------------------
(* save and writeJSONAtomic *)

\* Mutant: only what the operation added is saved.
SnapshotMade(w) ==
    /\ wpc[w] = "snapshot"
    /\ snap' = [snap EXCEPT ![w] = made[w]]
    /\ goto(w, "open")
    /\ UNCHANGED <<store, file, items, made, fd, diskVars, acked, refused>>

Snapshot(w) ==
    /\ wpc[w] = "snapshot"
    /\ snap' = [snap EXCEPT ![w] = InMemory(file[w])]
    /\ goto(w, "open")
    /\ UNCHANGED <<store, file, items, made, fd, diskVars, acked, refused>>

opened(f) == {fd[w] : w \in {v \in Writers : file[v] = f}}
inUse(f)  == {dir[f].main, dir[f].tmp} \cup opened(f)

setText(f, n, text) == content' = [content EXCEPT ![f][n] = text]

\* The directory of f becomes d; an inode without a name or an opener is free.
setDir(f, d) ==
    /\ dir' = [dir EXCEPT ![f] = d]
    /\ content' = [content EXCEPT ![f] =
            [n \in Inodes |-> IF n \in {d.main, d.tmp} \cup opened(f) THEN @[n] ELSE Empty]]

\* Mutant: an existing path.tmp is not truncated.
OpenNoTrunc(w) ==
    LET f == file[w]
        n == IF dir[f].tmp # 0 THEN dir[f].tmp
             ELSE CHOOSE m \in Inodes \ inUse(f) : TRUE
    IN  /\ wpc[w] = "open"
        /\ fd' = [fd EXCEPT ![w] = n]
        /\ dir' = [dir EXCEPT ![f].tmp = n]
        /\ goto(w, "write")
        /\ UNCHANGED <<store, file, items, made, snap, content, acked, refused>>

\* os.WriteFile opens path.tmp and truncates it, or creates it.
Open(w) ==
    LET f == file[w]
        n == IF dir[f].tmp # 0 THEN dir[f].tmp
             ELSE CHOOSE m \in Inodes \ inUse(f) : TRUE
    IN  /\ wpc[w] = "open"
        /\ fd' = [fd EXCEPT ![w] = n]
        /\ dir' = [dir EXCEPT ![f].tmp = n]
        /\ setText(f, n, Empty)
        /\ goto(w, "write")
        /\ UNCHANGED <<store, file, items, made, snap, acked, refused>>

\* Writing from the start of a file over what is in it: a shorter text leaves
\* the tail of the longer one behind it.  Lengths follow the number of entries.
Over(old, entries) ==
    LET new  == [state |-> "text", entries |-> entries]
        torn == [state |-> "garbled", entries |-> old.entries]
    IN  IF old.state = "empty" \/ Cardinality(old.entries) < Cardinality(entries) THEN {new}
        ELSE IF Cardinality(old.entries) > Cardinality(entries) THEN {torn}
        ELSE IF old.entries = entries /\ old.state = "text" THEN {new}
        ELSE {new, torn}

Write(w) ==
    /\ wpc[w] = "write"
    /\ \E text \in Over(content[file[w]][fd[w]], snap[w]) : setText(file[w], fd[w], text)
    /\ fd' = [fd EXCEPT ![w] = 0]
    /\ snap' = [snap EXCEPT ![w] = {}]
    /\ goto(w, "rename")
    /\ UNCHANGED <<store, file, items, made, dir, acked, refused>>

\* Mutant: a put whose save failed stays in memory.
failKeep(w) == return(w)

\* A put whose save failed is rolled back; a link or a deletion stays in memory.
fail(w) ==
    IF file[w] = "urls" THEN goto(w, "rollback") /\ UNCHANGED <<file, made, snap>>
    ELSE return(w)

\* path.tmp cannot be opened, or only a part of the text was written.
WriteErrs(w) ==
    /\ WriteFails /\ wpc[w] \in {"open", "write"}
    /\ IF wpc[w] = "open" THEN UNCHANGED content
       ELSE setText(file[w], fd[w], [state |-> "garbled", entries |-> snap[w]])
    /\ fd' = [fd EXCEPT ![w] = 0]
    /\ fail(w)
    /\ UNCHANGED <<store, items, dir, acked, refused>>

\* os.Rename(path.tmp, path), the first time or after os.Remove(path).
Rename(w) ==
    LET f == file[w]
    IN  /\ wpc[w] \in {"rename", "renameAgain"} /\ dir[f].tmp # 0
        /\ setDir(f, [main |-> dir[f].tmp, tmp |-> 0])
        /\ acked' = [acked EXCEPT ![f] = @ \cup made[w]]
        /\ return(w)
        /\ UNCHANGED <<store, items, fd, refused>>

\* It fails when another writer has renamed path.tmp away.
RenameErrs(w) ==
    /\ wpc[w] \in {"rename", "renameAgain"}
    /\ dir[file[w]].tmp = 0 \/ RenameFails
    /\ IF wpc[w] = "rename" THEN goto(w, "remove") /\ UNCHANGED <<file, made, snap>> ELSE fail(w)
    /\ UNCHANGED <<store, items, fd, diskVars, acked, refused>>

Remove(w) ==
    /\ wpc[w] = "remove"
    /\ setDir(file[w], [dir[file[w]] EXCEPT !.main = 0])
    /\ goto(w, "renameAgain")
    /\ UNCHANGED <<store, file, items, made, snap, fd, acked, refused>>

\* os.Remove(path) fails; it is no error that there is no such file.
RemoveErrs(w) ==
    /\ RenameFails /\ wpc[w] = "remove" /\ dir[file[w]].main # 0
    /\ fail(w)
    /\ UNCHANGED <<store, items, fd, diskVars, acked, refused>>

\* mem.Delete of the ids the put had created, one after the other.
Rollback(w, item) ==
    /\ wpc[w] = "rollback" /\ item \in made[w]
    /\ Delete(item[1])
    /\ IF made[w] = {item} THEN return(w)
       ELSE made' = [made EXCEPT ![w] = @ \ {item}] /\ UNCHANGED <<wpc, file, snap>>
    /\ UNCHANGED <<items, fd, diskVars, acked, refused>>

-----------------------------------------------------------------------------
\* The process is killed and NewFileRepository loads what the files hold; it
\* refuses a file it cannot parse.
Restart ==
    /\ Crashes /\ ~refused
    /\ refused' = (\E f \in Files : textOf(f).state = "garbled")
    /\ data' = [i \in Ids |-> IF \E u \in Urls : <<i, u>> \in OnDisk("urls")
                              THEN CHOOSE u \in Urls : <<i, u>> \in OnDisk("urls") ELSE NoUrl]
    /\ original' = [u \in Urls |-> IF \E i \in Ids : <<i, u>> \in OnDisk("urls")
                                   THEN CHOOSE i \in Ids : <<i, u>> \in OnDisk("urls") ELSE NoId]
    /\ user' = [u \in Users |-> {i \in Ids : <<u, i>> \in OnDisk("users")}]
    /\ known' = {u \in Users : user'[u] # {}}
    /\ deleted' = OnDisk("deleted")
    /\ wpc' = [w \in Writers |-> "idle"]
    /\ file' = [w \in Writers |-> "urls"]
    /\ items' = [w \in Writers |-> {}]
    /\ made' = [w \in Writers |-> {}]
    /\ snap' = [w \in Writers |-> {}]
    /\ fd' = [w \in Writers |-> 0]
    /\ UNCHANGED <<diskVars, acked>>

WriterStep(w) ==
    \/ Begin(w)
    \/ \E item \in Ids \X Urls : PutItem(w, item) \/ Rollback(w, item)
    \/ Snapshot(w) \/ Open(w) \/ Write(w) \/ WriteErrs(w)
    \/ Rename(w) \/ RenameErrs(w) \/ Remove(w) \/ RemoveErrs(w)

FileNext == Restart \/ \E w \in Writers : WriterStep(w)

FileSpec == FileInit /\ [][FileNext]_fileVars

-----------------------------------------------------------------------------
(* Properties *)

\* Whatever was reported as saved is in the files: a crash at this point loses
\* no acknowledged URL, link or deletion.
AcknowledgedOnDisk == \A f \in Files : acked[f] \subseteq OnDisk(f)

\* A start never fails on a file that an earlier run left half-written.
StartsAgain == ~refused

\* Between two operations of a lone writer the URL file and memory agree (a
\* failed save was rolled back), and the others hold no more than memory.
FilesFollowMemory ==
    (\A w \in Writers : wpc[w] = "idle") /\ ~refused =>
        /\ OnDisk("urls") = InMemory("urls")
        /\ \A f \in {"users", "deleted"} : OnDisk(f) \subseteq InMemory(f)

\* In memory the two URL maps stay inverse to each other, rollbacks included.
IndexesAgree == \A i \in Ids, u \in Urls : data[i] = u <=> original[u] = i

\* A rollback takes back the records of its own put only: a record whose put
\* was reported a success is not touched by a writer whose save fails.
AcknowledgedInMemory == acked["urls"] \subseteq InMemory("urls")

\* Operations one at a time: memory and the three files are a durable store.
\* Every step of a save but the rename leaves both as they are, the rename puts
\* all of memory into the file at once, and a start loads what was saved.
Durable == INSTANCE DurableStore
    WITH Entries <- (Ids \X Urls) \cup (Users \X Ids) \cup Ids,
         memory  <- [f \in Files |-> InMemory(f)],
         saved   <- [f \in Files |-> OnDisk(f)]

RefinesDurableStore == Durable!Spec
=============================================================================
