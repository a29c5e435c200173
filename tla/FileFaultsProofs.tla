--------------------------- MODULE FileFaultsProofs ---------------------------
(***************************************************************************)
(* FileRepository under every failure at once: any number of writers,      *)
(* writes and renames that fail, and crashes anywhere.  The state keeps    *)
(* its types, an inode is always free for a new path.tmp, the two URL maps *)
(* stay inverse to each other, and a start loads what the files list.      *)
(* With one writer at a time no start refuses a file; and if its renames   *)
(* do not fail either, the store implements DurableStore.                  *)
(***************************************************************************)
EXTENDS FileRepositoryProofs

-----------------------------------------------------------------------------
(***************************************************************************)
(* Types.                                                                  *)
(***************************************************************************)
EntrySets == (SUBSET (Ids \X Urls)) \cup (SUBSET (Users \X Ids)) \cup (SUBSET Ids)

\* The copy a writer holds lists the entries of some file.
FaultTypeOK == FileTypeOK /\ snap \in [Writers -> EntrySets]

\* There is an inode more than path and the open files of all writers can name.
LEMMA FreeInode ==
    ASSUME FileTypeOK, NEW f \in Files, dir[f].tmp = 0
    PROVE  \E m \in Inodes : m \notin inUse(f)
<1> DEFINE held == {fd[v] : v \in Writers}
<1>1. /\ IsFiniteSet(Writers) /\ Cardinality(Writers) \in Nat
  BY FileAssumption, FS_CardinalityType
<1>2. fd \in Surjection(Writers, held)
  BY DEF FileTypeOK, Surjection
<1>3. inUse(f) \subseteq held \cup {dir[f].main, 0}
  BY DEF inUse, opened
<1> HIDE DEF held
<1>4. IsFiniteSet(held) /\ Cardinality(held) <= Cardinality(Writers)
  BY <1>1, <1>2, FS_Surjection
<1>5. /\ IsFiniteSet(held \cup {dir[f].main})
      /\ Cardinality(held \cup {dir[f].main}) <= Cardinality(Writers) + 1
  <2>1. Cardinality(held) \in Nat
    BY <1>4, FS_CardinalityType
  <2>2. CASE dir[f].main \in held
    <3>1. held \cup {dir[f].main} = held
      BY <2>2
    <3> QED BY <1>1, <1>4, <2>1, <3>1
  <2>3. CASE dir[f].main \notin held
    <3>1. /\ IsFiniteSet(held \cup {dir[f].main})
          /\ Cardinality(held \cup {dir[f].main}) = Cardinality(held) + 1
      BY <1>4, <2>3, FS_AddElement
    <3> QED BY <1>1, <1>4, <2>1, <3>1
  <2> QED BY <2>2, <2>3
<1>6. Cardinality(Inodes) = Cardinality(Writers) + 2 /\ 0 \notin Inodes
  BY <1>1, FS_Interval DEF Inodes
<1>7. ~(Inodes \subseteq held \cup {dir[f].main})
  <2>1. ASSUME Inodes \in SUBSET (held \cup {dir[f].main})
        PROVE  Cardinality(Inodes) <= Cardinality(held \cup {dir[f].main})
    BY <1>5, <2>1, FS_Subset
  <2>2. Cardinality(held \cup {dir[f].main}) \in Nat
    BY <1>5, FS_CardinalityType
  <2> QED BY <1>1, <1>5, <1>6, <2>1, <2>2
<1> QED BY <1>3, <1>6, <1>7

-----------------------------------------------------------------------------
(***************************************************************************)
(* The indexes.  Every text the URL file may come to have lists a URL for  *)
(* an id once and an id for a URL once, so a start finds the two maps      *)
(* inverse to each other, whichever save it finds and however many failed. *)
(***************************************************************************)
Paired(entries) ==
    /\ entries \subseteq Ids \X Urls
    /\ \A i, j \in Ids, u, v \in Urls :
          <<i, u>> \in entries /\ <<j, v>> \in entries => (i = j <=> u = v)

Fits(f, entries) ==
    /\ f = "urls" => Paired(entries)
    /\ f = "users" => entries \subseteq Users \X Ids
    /\ f = "deleted" => entries \subseteq Ids

TextsFit ==
    \A f \in Files, n \in Inodes :
        content[f][n].state = "text" => Fits(f, content[f][n].entries)

SnapsFit == \A w \in Writers : wpc[w] \in {"open", "write"} => Fits(file[w], snap[w])

OpensOK == \A w \in Writers : wpc[w] = "write" => fd[w] # 0

FaultInv ==
    /\ FaultTypeOK /\ OpensOK
    /\ IndexesAgree /\ TextsFit /\ SnapsFit

\* A deletion of any id keeps the indexes inverse, whose record it may be.
LEMMA DeleteKeepsIndexes ==
    ASSUME StoreTypeOK, IndexesAgree, NEW i \in Ids, Delete(i)
    PROVE  StoreTypeOK' /\ IndexesAgree'
<1>1. /\ data' = [data EXCEPT ![i] = NoUrl]
      /\ original' = [u \in Urls |-> IF data[i] = u THEN NoId ELSE original[u]]
      /\ user' = [w \in Users |-> user[w] \ {i}]
      /\ deleted' = deleted \ {i} /\ UNCHANGED known
  BY DEF Delete
<1>2. StoreTypeOK'
  BY <1>1 DEF StoreTypeOK
<1>3. ASSUME NEW j \in Ids, NEW u \in Urls PROVE data'[j] = u <=> original'[u] = j
  <2>1. data[j] = u <=> original[u] = j
    BY DEF IndexesAgree
  <2>2. data[i] = u <=> original[u] = i
    BY DEF IndexesAgree
  <2>3. /\ data'[j] = IF j = i THEN NoUrl ELSE data[j]
        /\ original'[u] = IF data[i] = u THEN NoId ELSE original[u]
    BY <1>1 DEF StoreTypeOK
  <2> QED BY <2>1, <2>2, <2>3, SentinelsAssumption
<1> QED BY <1>2, <1>3 DEF IndexesAgree

\* What a save of the URL file copies lists every id and every URL once.
LEMMA MemoryFits ==
    ASSUME StoreTypeOK, IndexesAgree, NEW f \in Files
    PROVE  Fits(f, InMemory(f))
<1>1. stored \subseteq Ids \X Urls
  BY DEF stored
<1>2. \A i \in Ids, u \in Urls : <<i, u>> \in stored => data[i] = u /\ original[u] = i
  BY DEF stored, IndexesAgree
<1>3. Paired(InMemory("urls"))
  BY <1>1, <1>2, InMemoryIs DEF Paired
<1>4. InMemory("users") \subseteq Users \X Ids /\ InMemory("deleted") \subseteq Ids
  BY InMemoryIs DEF StoreTypeOK
<1> QED BY <1>3, <1>4 DEF Fits

\* What the steps that leave the disk alone do to the invariant.
LEMMA DiskKept ==
    ASSUME TextsFit, OpensOK, UNCHANGED <<content, fd>>,
           \A w \in Writers : wpc'[w] = "write" => wpc[w] = "write"
    PROVE  TextsFit' /\ OpensOK'
BY DEF TextsFit, OpensOK

LEMMA FaultInitially == FileInit => FaultInv
<1> SUFFICES ASSUME FileInit PROVE FaultInv
  OBVIOUS
<1>1. StoreTypeOK
  BY DEF FileInit, StoreInit, StoreTypeOK
<1>2. Empty \in Texts /\ {} \in EntrySets
  BY DEF Empty, Texts, EntrySets
<1>3. FaultTypeOK
  BY <1>1, <1>2 DEF FileInit, FaultTypeOK, FileTypeOK, WriterStages, Files
<1>4. IndexesAgree
  BY SentinelsAssumption DEF FileInit, StoreInit, IndexesAgree
<1>5. TextsFit /\ SnapsFit /\ OpensOK
  BY DEF FileInit, TextsFit, SnapsFit, OpensOK, Paired, Empty, Files
<1> QED BY <1>3, <1>4, <1>5 DEF FaultInv

\* An operation begins.
LEMMA FaultBegins ==
    ASSUME FaultInv, NEW w \in Writers, Begin(w)
    PROVE  FaultInv'
<1> USE DEF FaultInv, FaultTypeOK, FileTypeOK
<1>1. UNCHANGED <<data, original, fd, snap, dir, content, refused>>
  BY DEF Begin, BeginPut, LookUp, BeginAddUserURLs, BeginMarkDeleted, AddUserURLs, MarkDeleted,
         diskVars, store
<1>2. IndexesAgree'
  BY <1>1 DEF IndexesAgree
<1>3. /\ \E s \in WriterStages \ {"open", "write"} : wpc' = [wpc EXCEPT ![w] = s]
      /\ \/ file' = file
         \/ \E f \in Files \ {"urls"} : file' = [file EXCEPT ![w] = f]
  BY DEF Begin, BeginPut, LookUp, BeginAddUserURLs, BeginMarkDeleted, goto, WriterStages, Files
<1>4. StoreTypeOK' /\ items' \in [Writers -> SUBSET (Ids \X Urls)]
  <2>1. CASE LookUp(w) \/ \E batch \in Items : BeginPut(w, batch)
    <3>1. /\ UNCHANGED store
          /\ \E records \in SUBSET (Ids \X Urls) : items' = [items EXCEPT ![w] = records]
      BY <2>1, InMemoryIs DEF BeginPut, LookUp, Items, stored
    <3> QED BY <3>1, MemoryKept
  <2>2. CASE \E u \in Users : \/ BeginAddUserURLs(w, u)
                            \/ \E ids \in SUBSET Ids : BeginMarkDeleted(w, u, ids)
    <3>1. items[w] \in SUBSET (Ids \X Urls)
      OBVIOUS
    <3>2. {e[1] : e \in items[w]} \in SUBSET Ids
      BY <3>1
    <3>3. PICK u \in Users : \/ BeginAddUserURLs(w, u)
                            \/ \E ids \in SUBSET Ids : BeginMarkDeleted(w, u, ids)
      BY <2>2
    <3>4. /\ data' = data /\ original' = original /\ known' \in {known, known \cup {u}}
          /\ user' \in {user, [user EXCEPT ![u] = @ \cup {e[1] : e \in items[w]}]}
          /\ deleted' = deleted \/ \E ids \in SUBSET Ids : deleted' = deleted \cup (ids \cap user[u])
          /\ items' \in {items, [items EXCEPT ![w] = {}]}
      BY <3>3 DEF BeginAddUserURLs, BeginMarkDeleted, AddUserURLs, MarkDeleted
    <3> QED BY <3>2, <3>4 DEF StoreTypeOK
  <2> QED BY <2>1, <2>2 DEF Begin
<1>5. FaultTypeOK'
  <2>1. wpc' \in [Writers -> WriterStages] /\ file' \in [Writers -> Files]
    BY <1>3
  <2> QED BY <1>1, <1>4, <2>1
<1>6. SnapsFit'
  BY <1>1, <1>3 DEF SnapsFit
<1>7. TextsFit' /\ OpensOK'
  BY <1>1, <1>3, DiskKept
<1> QED BY <1>2, <1>5, <1>6, <1>7

\* The put of one item, stored or found taken.
LEMMA FaultPuts ==
    ASSUME FaultInv, NEW w \in Writers, NEW item \in Ids \X Urls, PutItem(w, item)
    PROVE  FaultInv'
<1> USE DEF FaultInv, FaultTypeOK, FileTypeOK
<1>1. /\ UNCHANGED <<file, snap, fd, dir, content, refused>>
      /\ items' = [items EXCEPT ![w] = @ \ {item}]
  BY DEF PutItem, diskVars
<1>2. \E s \in WriterStages \ {"open", "write"} : wpc' = [wpc EXCEPT ![w] = s]
  BY DEF PutItem, goto, WriterStages
<1>3. StoreTypeOK' /\ IndexesAgree'
  <2>1. CASE Fresh(item[1], item[2])
    BY <2>1, PutStores DEF PutItem
  <2>2. CASE ~Fresh(item[1], item[2])
    BY <2>2, MemoryKept DEF PutItem
  <2> QED BY <2>1, <2>2
<1>4. FaultTypeOK' /\ SnapsFit'
  BY <1>1, <1>2, <1>3 DEF SnapsFit
<1>5. TextsFit' /\ OpensOK'
  BY <1>1, <1>2, DiskKept
<1> QED BY <1>3, <1>4, <1>5

LEMMA FaultRollsBack ==
    ASSUME FaultInv, NEW w \in Writers, NEW item \in Ids \X Urls, Rollback(w, item)
    PROVE  FaultInv'
<1> USE DEF FaultInv, FaultTypeOK, FileTypeOK
<1>1. UNCHANGED <<items, fd, dir, content, refused>> /\ Delete(item[1])
  BY DEF Rollback, diskVars
<1>2. StoreTypeOK' /\ IndexesAgree'
  BY <1>1, DeleteKeepsIndexes
<1>3. \/ UNCHANGED <<wpc, file, snap>>
      \/ /\ wpc' = [wpc EXCEPT ![w] = "idle"] /\ file' = [file EXCEPT ![w] = "urls"]
         /\ snap' = [snap EXCEPT ![w] = {}]
  BY DEF Rollback, return
<1>4. Paired({}) /\ {} \in EntrySets /\ "idle" \in WriterStages /\ "urls" \in Files
  BY DEF Paired, EntrySets, WriterStages, Files
<1>5. FaultTypeOK' /\ SnapsFit'
  BY <1>1, <1>2, <1>3, <1>4 DEF SnapsFit
<1>6. TextsFit' /\ OpensOK'
  BY <1>1, <1>3, DiskKept
<1> QED BY <1>2, <1>5, <1>6

\* The save of one file, on a disk where other writers save it too.
LEMMA FaultSnapshots ==
    ASSUME FaultInv, NEW w \in Writers, Snapshot(w)
    PROVE  FaultInv'
<1> USE DEF FaultInv, FaultTypeOK, FileTypeOK
<1>1. /\ UNCHANGED <<store, file, items, fd, dir, content, refused>>
      /\ snap' = [snap EXCEPT ![w] = InMemory(file[w])] /\ wpc' = [wpc EXCEPT ![w] = "open"]
  BY DEF Snapshot, goto, diskVars
<1>2. /\ InMemory(file[w]) \in EntrySets /\ "open" \in WriterStages
      /\ Fits(file[w], InMemory(file[w]))
  BY MemoryFits DEF InMemory, EntrySets, Files, StoreTypeOK, WriterStages
<1>3. StoreTypeOK' /\ IndexesAgree'
  BY <1>1, MemoryKept
<1>4. FaultTypeOK' /\ SnapsFit'
  BY <1>1, <1>2, <1>3 DEF SnapsFit
<1>5. TextsFit' /\ OpensOK'
  BY <1>1, DiskKept
<1> QED BY <1>3, <1>4, <1>5

LEMMA FaultOpens ==
    ASSUME FaultInv, NEW w \in Writers, Open(w)
    PROVE  FaultInv'
<1> USE DEF FaultInv, FaultTypeOK, FileTypeOK
<1> DEFINE n == IF dir[file[w]].tmp # 0 THEN dir[file[w]].tmp
                ELSE CHOOSE m \in Inodes \ inUse(file[w]) : TRUE
<1>1. /\ wpc[w] = "open" /\ UNCHANGED <<store, file, items, snap, refused>>
      /\ fd' = [fd EXCEPT ![w] = n] /\ wpc' = [wpc EXCEPT ![w] = "write"]
      /\ dir' = [dir EXCEPT ![file[w]].tmp = n]
      /\ content' = [content EXCEPT ![file[w]][n] = Empty]
  BY DEF Open, goto, setText
<1>2. n \in Inodes /\ n # 0
  <2>1. CASE dir[file[w]].tmp # 0
    BY <2>1
  <2>2. CASE dir[file[w]].tmp = 0
    <3>1. \E m \in Inodes : m \notin inUse(file[w])
      BY <2>2, FreeInode
    <3>2. n \in Inodes \ inUse(file[w])
      BY <2>2, <3>1
    <3>3. 0 \notin Inodes
      BY FileAssumption, FS_CardinalityType DEF Inodes
    <3> QED BY <3>2, <3>3
  <2> QED BY <2>1, <2>2
<1> HIDE DEF n
<1>3. StoreTypeOK' /\ IndexesAgree'
  BY <1>1, MemoryKept
<1>4. Empty \in Texts /\ "write" \in WriterStages /\ Empty.state # "text"
  BY DEF Empty, Texts, WriterStages
<1>5. FaultTypeOK' /\ SnapsFit' /\ OpensOK'
  BY <1>1, <1>2, <1>3, <1>4 DEF SnapsFit, OpensOK
<1>6. TextsFit'
  BY <1>1, <1>2, <1>4 DEF TextsFit, Files
<1> QED BY <1>3, <1>5, <1>6

\* What a write over an older text leaves is the copy, or cannot be parsed.
LEMMA WrittenOver ==
    ASSUME NEW old \in Texts, NEW entries \in EntrySets, NEW text \in Over(old, entries)
    PROVE  text \in Texts /\ (text.state = "text" => text.entries = entries)
<1>1. \/ text = [state |-> "text", entries |-> entries]
      \/ text = [state |-> "garbled", entries |-> old.entries]
  BY DEF Over
<1> QED BY <1>1 DEF Texts, EntrySets

LEMMA FaultWrites ==
    ASSUME FaultInv, NEW w \in Writers, Write(w)
    PROVE  FaultInv'
<1> USE DEF FaultInv, FaultTypeOK, FileTypeOK
<1>1. /\ wpc[w] = "write" /\ UNCHANGED <<store, file, items, dir, refused>>
      /\ fd' = [fd EXCEPT ![w] = 0] /\ snap' = [snap EXCEPT ![w] = {}]
      /\ wpc' = [wpc EXCEPT ![w] = "rename"]
  BY DEF Write, goto
<1>2. PICK text \in Over(content[file[w]][fd[w]], snap[w]) :
               content' = [content EXCEPT ![file[w]][fd[w]] = text]
  BY DEF Write, setText
<1>3. fd[w] \in Inodes
  BY <1>1 DEF OpensOK
<1>4. text \in Texts /\ (text.state = "text" => text.entries = snap[w])
  BY <1>3, WrittenOver
<1>5. StoreTypeOK' /\ IndexesAgree'
  BY <1>1, MemoryKept
<1>6. Paired({}) /\ {} \in EntrySets /\ "rename" \in WriterStages
  BY DEF Paired, EntrySets, WriterStages
<1>7. FaultTypeOK' /\ SnapsFit' /\ OpensOK'
  BY <1>1, <1>2, <1>3, <1>4, <1>5, <1>6 DEF SnapsFit, OpensOK
<1>8. TextsFit'
  <2>1. ASSUME NEW f \in Files, NEW m \in Inodes
        PROVE  \/ content'[f][m] = content[f][m]
               \/ file[w] = f /\ content'[f][m] = text
    BY <1>2
  <2>2. Fits(file[w], snap[w])
    BY <1>1 DEF SnapsFit
  <2>3. ASSUME NEW f \in Files, NEW m \in Inodes, content'[f][m].state = "text"
        PROVE  Fits(f, content'[f][m].entries)
    <3>1. CASE content'[f][m] = content[f][m]
      BY <2>3, <3>1 DEF TextsFit
    <3>2. CASE file[w] = f /\ content'[f][m] = text
      BY <1>4, <2>2, <2>3, <3>2
    <3> QED BY <2>1, <3>1, <3>2
  <2> QED BY <2>3 DEF TextsFit
<1> QED BY <1>5, <1>7, <1>8

\* A save that fails leaves the operation to its rollback, or returns.
LEMMA FaultStages ==
    ASSUME FaultInv, NEW w \in Writers, fail(w) \/ return(w)
    PROVE  /\ wpc' \in [Writers -> WriterStages] /\ file' \in [Writers -> Files]
           /\ snap' \in [Writers -> EntrySets] /\ SnapsFit'
           /\ \A v \in Writers : wpc'[v] = "write" => v # w /\ wpc[v] = "write"
<1> USE DEF FaultInv, FaultTypeOK, FileTypeOK
<1>1. Paired({}) /\ {} \in EntrySets /\ {"idle", "rollback"} \subseteq WriterStages /\ "urls" \in Files
  BY DEF Paired, EntrySets, WriterStages, Files
<1>2. CASE wpc' = [wpc EXCEPT ![w] = "rollback"] /\ UNCHANGED <<file, snap>>
  BY <1>1, <1>2 DEF SnapsFit
<1>3. CASE return(w)
  BY <1>1, <1>3 DEF SnapsFit, return
<1> QED BY <1>2, <1>3 DEF fail, goto

LEMMA FaultWriteErrs ==
    ASSUME FaultInv, NEW w \in Writers, WriteErrs(w)
    PROVE  FaultInv'
<1> USE DEF FaultInv, FaultTypeOK, FileTypeOK
<1>1. /\ wpc[w] \in {"open", "write"} /\ UNCHANGED <<store, items, dir, refused>>
      /\ fd' = [fd EXCEPT ![w] = 0] /\ fail(w)
  BY DEF WriteErrs
<1>2. /\ wpc' \in [Writers -> WriterStages] /\ file' \in [Writers -> Files]
      /\ snap' \in [Writers -> EntrySets] /\ SnapsFit'
      /\ \A v \in Writers : wpc'[v] = "write" => v # w /\ wpc[v] = "write"
  BY <1>1, FaultStages
<1>3. StoreTypeOK' /\ IndexesAgree'
  BY <1>1, MemoryKept
<1>4. PICK torn : torn = [state |-> "garbled", entries |-> snap[w]]
  OBVIOUS
<1>5. torn \in Texts /\ torn.state # "text"
  BY <1>4 DEF Texts, EntrySets
<1>6. content' = content \/ content' = [content EXCEPT ![file[w]][fd[w]] = torn]
  BY <1>4 DEF WriteErrs, setText
<1>7. content' \in [Files -> [Inodes -> Texts]] /\ TextsFit'
  <2>1. CASE content' = content
    BY <2>1 DEF TextsFit
  <2>2. CASE content' = [content EXCEPT ![file[w]][fd[w]] = torn]
    BY <1>5, <2>2 DEF TextsFit, Files
  <2> QED BY <1>6, <2>1, <2>2
<1>8. FaultTypeOK' /\ OpensOK'
  BY <1>1, <1>2, <1>3, <1>7 DEF OpensOK
<1> QED BY <1>2, <1>3, <1>7, <1>8

\* A rename and a removal move names and free inodes.
LEMMA DirectorySet ==
    ASSUME FaultInv, NEW f \in Files, NEW d \in [main : Inodes \cup {0}, tmp : Inodes \cup {0}],
           setDir(f, d)
    PROVE  /\ dir' \in [Files -> [main : Inodes \cup {0}, tmp : Inodes \cup {0}]]
           /\ content' \in [Files -> [Inodes -> Texts]] /\ TextsFit'
<1> USE DEF FaultInv, FaultTypeOK, FileTypeOK
<1>1. dir' = [dir EXCEPT ![f] = d]
  BY DEF setDir
<1>2. Empty \in Texts /\ Empty.state # "text"
  BY DEF Empty, Texts
<1>3. PICK held : held = opened(f)
  OBVIOUS
<1>4. content' = [content EXCEPT ![f] =
            [n \in Inodes |-> IF n \in {d.main, d.tmp} \cup held THEN @[n] ELSE Empty]]
  BY <1>3 DEF setDir
<1>5. content' \in [Files -> [Inodes -> Texts]]
  BY <1>2, <1>4
<1>6. TextsFit'
  BY <1>2, <1>4 DEF TextsFit, Files
<1> QED BY <1>1, <1>5, <1>6

LEMMA FaultMoves ==
    ASSUME FaultInv, NEW w \in Writers, Rename(w) \/ RenameErrs(w) \/ Remove(w) \/ RemoveErrs(w)
    PROVE  FaultInv'
<1> USE DEF FaultInv, FaultTypeOK, FileTypeOK
<1>1. UNCHANGED <<store, items, fd, refused>>
  BY DEF Rename, RenameErrs, Remove, RemoveErrs
<1>2. StoreTypeOK' /\ IndexesAgree'
  BY <1>1, MemoryKept
<1>3. /\ dir' \in [Files -> [main : Inodes \cup {0}, tmp : Inodes \cup {0}]]
      /\ content' \in [Files -> [Inodes -> Texts]] /\ TextsFit'
  <2>1. CASE RenameErrs(w) \/ RemoveErrs(w)
    BY <2>1 DEF RenameErrs, RemoveErrs, diskVars, TextsFit
  <2>2. CASE Rename(w)
    <3>1. PICK d : d = [main |-> dir[file[w]].tmp, tmp |-> 0]
      OBVIOUS
    <3>2. d \in [main : Inodes \cup {0}, tmp : Inodes \cup {0}] /\ setDir(file[w], d)
      BY <2>2, <3>1 DEF Rename
    <3> QED BY <3>2, DirectorySet
  <2>3. CASE Remove(w)
    <3>1. PICK d : d = [dir[file[w]] EXCEPT !.main = 0]
      OBVIOUS
    <3>2. d \in [main : Inodes \cup {0}, tmp : Inodes \cup {0}] /\ setDir(file[w], d)
      BY <2>3, <3>1 DEF Remove
    <3> QED BY <3>2, DirectorySet
  <2> QED BY <2>1, <2>2, <2>3
<1>4. /\ wpc' \in [Writers -> WriterStages] /\ file' \in [Writers -> Files]
      /\ snap' \in [Writers -> EntrySets] /\ SnapsFit'
      /\ \A v \in Writers : wpc'[v] = "write" => wpc[v] = "write"
  <2>1. CASE fail(w) \/ return(w)
    BY <2>1, FaultStages
  <2>2. CASE /\ \E s \in {"remove", "renameAgain"} : wpc' = [wpc EXCEPT ![w] = s]
             /\ UNCHANGED <<file, snap>>
    BY <2>2 DEF SnapsFit, WriterStages
  <2> QED BY <2>1, <2>2 DEF Rename, RenameErrs, Remove, RemoveErrs, goto
<1>5. FaultTypeOK' /\ OpensOK'
  BY <1>1, <1>2, <1>3, <1>4 DEF OpensOK
<1> QED BY <1>2, <1>3, <1>4, <1>5

\* A start finds in each file what belongs there, and loads all of it.
LEMMA StartLoadsFiles ==
    ASSUME FaultInv, Restart
    PROVE  /\ \A f \in Files : Fits(f, OnDisk(f))
           /\ \A i \in Ids, u \in Urls : /\ data'[i] = u <=> <<i, u>> \in OnDisk("urls")
                                         /\ original'[u] = i <=> <<i, u>> \in OnDisk("urls")
           /\ \A f \in Files : InMemory(f)' = OnDisk(f)
<1> USE DEF FaultInv, FaultTypeOK, FileTypeOK
<1>1. /\ data' = [i \in Ids |-> IF \E u \in Urls : <<i, u>> \in OnDisk("urls")
                                THEN CHOOSE u \in Urls : <<i, u>> \in OnDisk("urls") ELSE NoUrl]
      /\ original' = [u \in Urls |-> IF \E i \in Ids : <<i, u>> \in OnDisk("urls")
                                     THEN CHOOSE i \in Ids : <<i, u>> \in OnDisk("urls") ELSE NoId]
      /\ user' = [u \in Users |-> {i \in Ids : <<u, i>> \in OnDisk("users")}]
      /\ deleted' = OnDisk("deleted")
  BY DEF Restart
<1>2. \A f \in Files : Fits(f, OnDisk(f))
  <2>1. \A f \in Files : Fits(f, {})
    BY DEF Fits, Paired
  <2> QED BY <2>1 DEF OnDisk, textOf, Empty, TextsFit
<1>3. /\ Paired(OnDisk("urls")) /\ OnDisk("users") \subseteq Users \X Ids
  BY <1>2 DEF Fits, Files
<1>4. ASSUME NEW i \in Ids, NEW u \in Urls
      PROVE  /\ data'[i] = u <=> <<i, u>> \in OnDisk("urls")
             /\ original'[u] = i <=> <<i, u>> \in OnDisk("urls")
  BY <1>1, <1>3, SentinelsAssumption DEF Paired
<1>5. InMemory("urls")' = OnDisk("urls")
  <2>1. InMemory("urls")' = {e \in Ids \X Urls : data'[e[1]] = e[2]}
    BY DEF InMemory
  <2>2. ASSUME NEW e \in Ids \X Urls PROVE data'[e[1]] = e[2] <=> e \in OnDisk("urls")
    <3>1. e[1] \in Ids /\ e[2] \in Urls /\ e = <<e[1], e[2]>>
      OBVIOUS
    <3> QED BY <1>4, <3>1
  <2>3. OnDisk("urls") \subseteq Ids \X Urls
    BY <1>3 DEF Paired
  <2> QED BY <2>1, <2>2, <2>3
<1>6. InMemory("users")' = OnDisk("users")
  <2>1. InMemory("users")' = {e \in Users \X Ids : e[2] \in user'[e[1]]}
    BY DEF InMemory
  <2>2. ASSUME NEW e \in Users \X Ids PROVE e[2] \in user'[e[1]] <=> e \in OnDisk("users")
    <3>1. e[1] \in Users /\ e[2] \in Ids /\ e = <<e[1], e[2]>>
      OBVIOUS
    <3> QED BY <1>1, <3>1
  <2> QED BY <1>3, <2>1, <2>2
<1>7. InMemory("deleted")' = OnDisk("deleted")
  BY <1>1 DEF InMemory
<1> QED BY <1>2, <1>4, <1>5, <1>6, <1>7 DEF Files

LEMMA FaultRestarts ==
    ASSUME FaultInv, Restart
    PROVE  FaultInv'
<1> USE DEF FaultInv, FaultTypeOK, FileTypeOK
<1>1. /\ UNCHANGED <<dir, content>> /\ refused' \in BOOLEAN
      /\ wpc' = [v \in Writers |-> "idle"] /\ file' = [v \in Writers |-> "urls"]
      /\ items' = [v \in Writers |-> {}] /\ snap' = [v \in Writers |-> {}]
      /\ fd' = [v \in Writers |-> 0]
  BY DEF Restart, diskVars
<1>2. IndexesAgree'
  BY StartLoadsFiles DEF IndexesAgree
<1>3. OnDisk("deleted") \subseteq Ids
  BY StartLoadsFiles DEF Fits, Files
<1>4. StoreTypeOK'
  BY <1>3 DEF Restart, StoreTypeOK
<1>5. Paired({}) /\ {} \in EntrySets /\ "idle" \in WriterStages /\ "urls" \in Files
  BY DEF Paired, EntrySets, WriterStages, Files
<1>6. FaultTypeOK' /\ SnapsFit' /\ OpensOK' /\ TextsFit'
  BY <1>1, <1>4, <1>5 DEF SnapsFit, OpensOK, TextsFit
<1> QED BY <1>2, <1>6

LEMMA FaultInductive == FaultInv /\ [FileNext]_fileVars => FaultInv'
<1> SUFFICES ASSUME FaultInv, [FileNext]_fileVars PROVE FaultInv'
  OBVIOUS
<1>1. CASE UNCHANGED fileVars
  <2>1. UNCHANGED <<store, wpc, file, items, snap, fd, dir, content, refused>>
    BY <1>1 DEF fileVars, writerVars, diskVars
  <2> QED BY <2>1, MemoryKept
          DEF FaultInv, FaultTypeOK, FileTypeOK, OpensOK, TextsFit, SnapsFit
<1>2. CASE Restart
  BY <1>2, FaultRestarts
<1>3. ASSUME NEW w \in Writers, WriterStep(w) PROVE FaultInv'
  BY <1>3, FaultBegins, FaultPuts, FaultRollsBack, FaultSnapshots, FaultOpens, FaultWrites,
     FaultWriteErrs, FaultMoves DEF WriterStep
<1> QED BY <1>1, <1>2, <1>3 DEF FileNext

\* Any number of writers, with writes and renames that fail and the process
\* killed and started again anywhere, leave the state well-typed: a save finds
\* a free inode for path.tmp, and a start makes well-formed maps of any file.
THEOREM FileTypesAlwaysOK == FileSpec => []FileTypeOK
<1>1. FaultInv => FileTypeOK
  BY DEF FaultInv, FaultTypeOK
<1> QED BY <1>1, FaultInitially, FaultInductive, PTL DEF FileSpec

\* The two URL maps are inverse to each other at all times, however saves of
\* several writers mix in one file, whichever of them fail, and whatever a start
\* then loads: no id stands for two URLs, no URL has two ids.
THEOREM IndexesStayInverse == FileSpec => []IndexesAgree
<1>1. FaultInv => IndexesAgree
  BY DEF FaultInv
<1> QED BY <1>1, FaultInitially, FaultInductive, PTL DEF FileSpec

-----------------------------------------------------------------------------
(***************************************************************************)
(* One writer at a time, when renames may fail too: what has path's name   *)
(* is never half-written, since only a text written to its end is renamed. *)
(***************************************************************************)
ReadableOK(w) ==
    /\ \A f \in Files : dir[f].main = 0 \/ dir[f].main # dir[f].tmp
    /\ \A f \in Files : textOf(f).state # "garbled"
    /\ fd[w] = IF wpc[w] = "write" THEN dir[file[w]].tmp ELSE 0
    /\ wpc[w] \in {"write", "rename", "remove", "renameAgain"} => dir[file[w]].tmp # 0
    /\ wpc[w] = "write" => content[file[w]][dir[file[w]].tmp].state = "empty"
    /\ wpc[w] \in {"rename", "remove", "renameAgain"} =>
          content[file[w]][dir[file[w]].tmp].state = "text"
    /\ ~refused

LEMMA ReadableInitially == ASSUME NEW w, Writers = {w}, FileInit PROVE ReadableOK(w)
BY DEF FileInit, ReadableOK, textOf, Empty, Files

\* A step that leaves the disk and the open file alone, and stays in or out of a save.
LEMMA ReadableKept ==
    ASSUME NEW w \in Writers, FaultInv, ReadableOK(w), UNCHANGED <<fd, dir, content, refused>>,
           \/ wpc'[w] \notin {"write", "rename", "remove", "renameAgain"}
              /\ wpc[w] # "write"
           \/ /\ file'[w] = file[w]
              /\ \/ wpc'[w] = wpc[w]
                 \/ wpc[w] \in {"rename", "remove", "renameAgain"}
                    /\ wpc'[w] \in {"rename", "remove", "renameAgain"}
    PROVE  ReadableOK(w)'
BY DEF ReadableOK, textOf

\* path.tmp is truncated or made, and never shares its inode with path.
LEMMA OpenKeepsTexts ==
    ASSUME NEW w, Writers = {w}, FaultInv, ReadableOK(w), Open(w)
    PROVE  /\ wpc[w] = "open" /\ wpc'[w] = "write" /\ UNCHANGED <<store, file, acked, refused>>
           /\ \E n \in Inodes \ {0} :
                 /\ fd'[w] = n /\ content'[file[w]][n].state = "empty"
                 /\ \A f \in Files : /\ dir'[f].main = dir[f].main
                                     /\ dir'[f].tmp = IF f = file[w] THEN n ELSE dir[f].tmp
                 /\ n # dir[file[w]].main
           /\ \A f \in Files : textOf(f)' = textOf(f)
<1> USE DEF FaultInv, FaultTypeOK, FileTypeOK
<1> DEFINE n == IF dir[file[w]].tmp # 0 THEN dir[file[w]].tmp
                ELSE CHOOSE m \in Inodes \ inUse(file[w]) : TRUE
<1>1. /\ wpc[w] = "open" /\ UNCHANGED <<store, file, acked, refused>>
      /\ fd' = [fd EXCEPT ![w] = n] /\ wpc' = [wpc EXCEPT ![w] = "write"]
      /\ dir' = [dir EXCEPT ![file[w]].tmp = n]
      /\ content' = [content EXCEPT ![file[w]][n] = Empty]
  BY DEF Open, goto, setText
<1>2. n \in Inodes /\ n # 0 /\ n # dir[file[w]].main
  <2>1. CASE dir[file[w]].tmp # 0
    BY <2>1 DEF ReadableOK
  <2>2. CASE dir[file[w]].tmp = 0
    <3>1. \E m \in Inodes : m \notin inUse(file[w])
      BY <2>2, FreeInode
    <3>2. n \in Inodes \ inUse(file[w])
      BY <2>2, <3>1
    <3>3. 0 \notin Inodes
      BY FileAssumption, FS_CardinalityType DEF Inodes
    <3> QED BY <3>2, <3>3 DEF inUse
  <2> QED BY <2>1, <2>2
<1> HIDE DEF n
<1>3. \A f \in Files : /\ dir'[f].main = dir[f].main
                       /\ dir'[f].tmp = IF f = file[w] THEN n ELSE dir[f].tmp
                       /\ dir[f].main # 0 => content'[f][dir[f].main] = content[f][dir[f].main]
  BY <1>1, <1>2
<1>4. \A f \in Files : textOf(f)' = textOf(f)
  BY <1>3, FilesKept
<1>5. wpc'[w] = "write" /\ fd'[w] = n /\ content'[file[w]][n].state = "empty"
  BY <1>1, <1>2 DEF Empty
<1> QED BY <1>1, <1>2, <1>3, <1>4, <1>5

LEMMA ReadableOpens ==
    ASSUME NEW w, Writers = {w}, FaultInv, ReadableOK(w), Open(w)
    PROVE  ReadableOK(w)'
<1>1. file[w] \in Files
  BY DEF FaultInv, FaultTypeOK, FileTypeOK
<1> QED BY <1>1, OpenKeepsTexts DEF ReadableOK

\* A write goes to path.tmp, whole or in part.
LEMMA WriteKeepsTexts ==
    ASSUME NEW w, Writers = {w}, FaultInv, ReadableOK(w), Write(w) \/ WriteErrs(w)
    PROVE  /\ UNCHANGED <<store, dir, acked, refused>> /\ fd'[w] = 0
           /\ \/ wpc'[w] = "rename" /\ file' = file /\ Write(w)
              \/ wpc'[w] \in {"rollback", "idle"}
           /\ Write(w) => /\ dir[file[w]].tmp # 0
                          /\ content'[file[w]][dir[file[w]].tmp].state = "text"
           /\ \A f \in Files : textOf(f)' = textOf(f)
<1> USE DEF FaultInv, FaultTypeOK, FileTypeOK
<1>1. /\ UNCHANGED <<store, dir, acked, refused>> /\ fd'[w] = 0
      /\ wpc[w] \in {"open", "write"}
      /\ \/ wpc'[w] = "rename" /\ file' = file /\ Write(w)
         \/ wpc'[w] \in {"rollback", "idle"}
  BY DEF Write, WriteErrs, goto, fail, return
<1>2. PICK text : /\ content' = content \/ content' = [content EXCEPT ![file[w]][fd[w]] = text]
                  /\ Write(w) => /\ text \in Over(content[file[w]][fd[w]], snap[w])
                                 /\ content' = [content EXCEPT ![file[w]][fd[w]] = text]
  BY DEF Write, WriteErrs, setText
<1>3. \A f \in Files : fd[w] = 0 \/ f # file[w] \/ dir[f].main = 0 \/ dir[f].main # fd[w]
  BY <1>1 DEF ReadableOK
<1>4. 0 \notin Inodes
  BY FileAssumption, FS_CardinalityType DEF Inodes
<1>5. \A f \in Files : dir[f].main # 0 => content'[f][dir[f].main] = content[f][dir[f].main]
  BY <1>2, <1>3, <1>4
<1>6. \A f \in Files : textOf(f)' = textOf(f)
  BY <1>1, <1>5, FilesKept
<1>7. ASSUME Write(w)
      PROVE  dir[file[w]].tmp # 0 /\ content'[file[w]][dir[file[w]].tmp].state = "text"
  <2>1. wpc[w] = "write" /\ fd[w] = dir[file[w]].tmp /\ dir[file[w]].tmp # 0
        /\ content[file[w]][fd[w]].state = "empty"
    BY <1>7 DEF Write, ReadableOK
  <2>2. text.state = "text"
    BY <1>2, <1>7, <2>1 DEF Over
  <2> QED BY <1>2, <1>7, <2>1, <2>2
<1> QED BY <1>1, <1>6, <1>7

\* The whole of the text is written into an empty file.
LEMMA ReadableWrites ==
    ASSUME NEW w, Writers = {w}, FaultInv, ReadableOK(w), Write(w) \/ WriteErrs(w)
    PROVE  ReadableOK(w)'
BY WriteKeepsTexts DEF ReadableOK

\* What was written to its end takes path's name, or path loses its name.
LEMMA ReadableMoves ==
    ASSUME NEW w, Writers = {w}, FaultInv, ReadableOK(w),
           Rename(w) \/ RenameErrs(w) \/ Remove(w) \/ RemoveErrs(w)
    PROVE  ReadableOK(w)'
<1> USE DEF FaultInv, FaultTypeOK, FileTypeOK
<1>1. CASE RenameErrs(w) \/ RemoveErrs(w)
  <2>1. UNCHANGED <<fd, dir, content, refused>> /\ wpc[w] \in {"rename", "remove", "renameAgain"}
    BY <1>1 DEF RenameErrs, RemoveErrs, diskVars
  <2>2. \/ wpc'[w] = "remove" /\ file' = file
        \/ wpc'[w] \in {"rollback", "idle"}
    BY <1>1 DEF RenameErrs, RemoveErrs, goto, fail, return
  <2> QED BY <2>1, <2>2, ReadableKept
<1>2. CASE Rename(w) \/ Remove(w)
  <2>1. PICK f \in Files : f = file[w]
    OBVIOUS
  <2>2. /\ fd[w] = 0 /\ wpc[w] \in {"rename", "remove", "renameAgain"}
        /\ UNCHANGED <<fd, refused>> /\ dir[f].tmp # 0
        /\ content[f][dir[f].tmp].state = "text"
    BY <1>2, <2>1 DEF Rename, Remove, ReadableOK
  <2>3. \/ /\ wpc'[w] = "idle" /\ setDir(f, [main |-> dir[f].tmp, tmp |-> 0])
        \/ /\ wpc'[w] = "renameAgain" /\ file' = file
           /\ setDir(f, [dir[f] EXCEPT !.main = 0])
    BY <1>2, <2>1 DEF Rename, Remove, return, goto
  <2>4. /\ \A g \in Files \ {f} : dir'[g] = dir[g] /\ content'[g] = content[g]
        /\ content'[f][dir[f].tmp] = content[f][dir[f].tmp]
        /\ \/ wpc'[w] = "idle" /\ dir'[f].main = dir[f].tmp /\ dir'[f].tmp = 0
           \/ /\ wpc'[w] = "renameAgain" /\ file' = file
              /\ dir'[f].main = 0 /\ dir'[f].tmp = dir[f].tmp
    BY <2>2, <2>3 DEF setDir
  <2>5. /\ \A g \in Files \ {f} : textOf(g)' = textOf(g)
        /\ textOf(f)'.state # "garbled"
    BY <2>2, <2>4 DEF textOf, Empty
  <2>6. \A g \in Files : dir'[g].main = 0 \/ dir'[g].main # dir'[g].tmp
    BY <2>2, <2>4 DEF ReadableOK
  <2> QED BY <2>1, <2>2, <2>4, <2>5, <2>6 DEF ReadableOK
<1> QED BY <1>1, <1>2

LEMMA ReadableInductive ==
    ASSUME NEW w, Writers = {w}, FaultInv, ReadableOK(w), [FileNext]_fileVars
    PROVE  ReadableOK(w)'
<1> USE DEF FaultInv, FaultTypeOK, FileTypeOK
<1>1. CASE UNCHANGED fileVars
  BY <1>1 DEF fileVars, writerVars, diskVars, ReadableOK, textOf
<1>2. CASE Restart
  <2>1. /\ UNCHANGED <<dir, content>> /\ wpc'[w] = "idle" /\ fd'[w] = 0
        /\ refused' = \E f \in Files : textOf(f).state = "garbled"
    BY <1>2 DEF Restart, diskVars
  <2> QED BY <2>1 DEF ReadableOK, textOf
<1>3. CASE \/ Begin(w) \/ Snapshot(w)
           \/ \E item \in Ids \X Urls : PutItem(w, item) \/ Rollback(w, item)
  <2>1. /\ UNCHANGED <<fd, dir, content, refused>>
        /\ wpc'[w] \in {"put", "link", "snapshot", "idle", "open", "rollback"} /\ wpc[w] # "write"
    BY <1>3 DEF Begin, BeginPut, LookUp, PutItem, Rollback, BeginAddUserURLs, BeginMarkDeleted,
                Snapshot, diskVars, CanStart, goto, return
  <2> QED BY <2>1, ReadableKept
<1>4. CASE Open(w) \/ Write(w) \/ WriteErrs(w) \/ Rename(w) \/ RenameErrs(w)
           \/ Remove(w) \/ RemoveErrs(w)
  BY <1>4, ReadableOpens, ReadableWrites, ReadableMoves
<1> QED BY <1>1, <1>2, <1>3, <1>4 DEF FileNext, WriterStep

\* With one writer at a time no start ever refuses a file, even when writes stop
\* half-way, renames fail once or twice, and the process is killed in between: a
\* text that was not written to its end never gets path's name.
THEOREM AlwaysStartsAgain ==
    ASSUME NEW w, Writers = {w}
    PROVE  FileSpec => []StartsAgain
<1>1. FileInit => FaultInv /\ ReadableOK(w)
  BY FaultInitially, ReadableInitially
<1>2. FaultInv /\ ReadableOK(w) /\ [FileNext]_fileVars => FaultInv' /\ ReadableOK(w)'
  BY FaultInductive, ReadableInductive
<1>3. ReadableOK(w) => StartsAgain
  BY DEF ReadableOK, StartsAgain
<1> QED BY <1>1, <1>2, <1>3, PTL DEF FileSpec

\* A start loads the files, the whole files and nothing but the files, whatever
\* saves were going on when the process was killed.
THEOREM StartsLoadTheFiles ==
    FileSpec => [][Restart => \A f \in Files : InMemory(f)' = OnDisk(f)]_fileVars
<1>1. FaultInv /\ [FileNext]_fileVars
      => [Restart => \A f \in Files : InMemory(f)' = OnDisk(f)]_fileVars
  BY StartLoadsFiles
<1> QED BY <1>1, FaultInitially, FaultInductive, PTL DEF FileSpec

-----------------------------------------------------------------------------
(***************************************************************************)
(* One writer at a time implements DurableStore.                           *)
(***************************************************************************)
\* A rename puts all that memory holds for its file into this file.
LEMMA RenameSavesMemory ==
    ASSUME NEW w, Writers = {w}, LoneInv(w), Rename(w)
    PROVE  \E f \in Files :
              /\ UNCHANGED store /\ OnDisk(f)' = InMemory(f)
              /\ \A g \in Files \ {f} : OnDisk(g)' = OnDisk(g)
              /\ made[w] \subseteq InMemory(f) /\ acked' = [acked EXCEPT ![f] = @ \cup made[w]]
<1> USE DEF LoneInv, LoneTypeOK, FileTypeOK
<1>1. PICK f \in Files : f = file[w]
  OBVIOUS
<1>2. PICK n \in Inodes \cup {0} : n = dir[f].tmp
  OBVIOUS
<1>3. /\ n # 0 /\ UNCHANGED store /\ made[w] \subseteq InMemory(f)
      /\ content[f][n] = [state |-> "text", entries |-> InMemory(f)]
      /\ acked' = [acked EXCEPT ![f] = @ \cup made[w]]
      /\ setDir(f, [main |-> n, tmp |-> 0])
  BY <1>1, <1>2 DEF Rename, SaveOK
<1>4. /\ dir'[f].main = n /\ content'[f][n] = content[f][n]
      /\ \A g \in Files \ {f} : dir'[g] = dir[g] /\ content'[g] = content[g]
  BY <1>3 DEF setDir
<1>5. OnDisk(f)' = InMemory(f) /\ \A g \in Files \ {f} : OnDisk(g)' = OnDisk(g)
  BY <1>3, <1>4 DEF textOf, OnDisk
<1> QED BY <1>3, <1>5

\* No other step of a writer changes what a start would load.
LEMMA OthersSaveNothing ==
    ASSUME NEW w, Writers = {w}, FaultInv, ReadableOK(w), LoneInv(w), ~RenameFails,
           WriterStep(w), ~Rename(w)
    PROVE  acked' = acked /\ \A f \in Files : OnDisk(f)' = OnDisk(f)
<1>1. ~Remove(w) /\ ~RenameErrs(w) /\ ~RemoveErrs(w)
  BY DEF Remove, RenameErrs, RemoveErrs, LoneInv, SaveOK
<1>2. CASE Open(w) \/ Write(w) \/ WriteErrs(w)
  <2>1. acked' = acked /\ \A f \in Files : textOf(f)' = textOf(f)
    BY <1>2, OpenKeepsTexts, WriteKeepsTexts
  <2> QED BY <2>1 DEF OnDisk
<1>3. CASE \/ Begin(w) \/ Snapshot(w)
           \/ \E item \in Ids \X Urls : PutItem(w, item) \/ Rollback(w, item)
  <2>1. UNCHANGED <<dir, content, acked>>
    BY <1>3 DEF Begin, BeginPut, LookUp, PutItem, Rollback, BeginAddUserURLs, BeginMarkDeleted,
                Snapshot, diskVars
  <2> QED BY <2>1, FilesKept
<1> QED BY <1>1, <1>2, <1>3 DEF WriterStep

DurableInv(w) == FaultInv /\ ReadableOK(w) /\ LoneInv(w)

\* What is saved is in memory, and memory holds entries.
SavedOK == \A f \in Files : OnDisk(f) \subseteq InMemory(f) /\ InMemory(f) \in SUBSET Entries

LEMMA SavedInMemory == ASSUME NEW w, LoneInv(w) PROVE SavedOK
<1>1. \A f \in Files : InMemory(f) \in SUBSET Entries
  BY MemoryInTexts DEF LoneInv, LoneTypeOK, FileTypeOK
<1>2. \A f \in Files : OnDisk(f) \subseteq InMemory(f)
  BY InMemoryIs DEF LoneInv, DiskOK, Files
<1> QED BY <1>1, <1>2 DEF SavedOK

LEMMA StepRefines ==
    ASSUME NEW w, Writers = {w}, ~RenameFails, DurableInv(w), SavedOK', FileNext
    PROVE  [Durable!Next]_Durable!durable
<1> USE DEF DurableInv
<1>1. CASE Restart
  <2>1. \A f \in Files : InMemory(f)' = OnDisk(f)
    BY <1>1, StartLoadsFiles
  <2>2. UNCHANGED <<dir, content, acked>>
    BY <1>1 DEF Restart, diskVars
  <2>3. \A f \in Files : OnDisk(f)' = OnDisk(f)
    BY <2>2, FilesKept
  <2>4. Durable!StartAgain
    BY <2>1, <2>2, <2>3 DEF Durable!StartAgain
  <2> QED BY <2>4 DEF Durable!Next
<1>2. CASE Rename(w)
  <2>1. PICK f \in Files :
              /\ UNCHANGED store /\ OnDisk(f)' = InMemory(f)
              /\ \A g \in Files \ {f} : OnDisk(g)' = OnDisk(g)
              /\ made[w] \subseteq InMemory(f) /\ acked' = [acked EXCEPT ![f] = @ \cup made[w]]
    BY <1>2, RenameSavesMemory
  <2>2. \A g \in Files : InMemory(g)' = InMemory(g)
    BY <2>1, MemoryKept
  <2>3. Durable!Save(f, made[w])
    BY <2>1, <2>2 DEF Durable!Save
  <2>4. made[w] \in SUBSET [g \in Files |-> InMemory(g)][f]
    BY <2>1
  <2> QED BY <2>3, <2>4 DEF Durable!Next
<1>3. CASE WriterStep(w) /\ ~Rename(w)
  <2>1. acked' = acked /\ \A f \in Files : OnDisk(f)' = OnDisk(f)
    BY <1>3, OthersSaveNothing
  <2>2. \A f \in Files : OnDisk(f)' \subseteq InMemory(f)' /\ InMemory(f)' \in SUBSET Entries
    BY DEF SavedOK
  <2>3. Durable!Work
    BY <2>1, <2>2 DEF Durable!Work, Entries
  <2> QED BY <2>3 DEF Durable!Next
<1> QED BY <1>1, <1>2, <1>3 DEF FileNext

\* With one writer at a time, failing writes, and a crash and a restart at any
\* point, the maps and the three files are a DurableStore: a file goes from one
\* whole copy of memory to the next in one step, an operation is reported as
\* saved with that step, and a start loads exactly what was saved.
THEOREM ImplementsDurableStore ==
    ASSUME NEW w, Writers = {w}, ~RenameFails
    PROVE  FileSpec => RefinesDurableStore
<1>1. FileInit => DurableInv(w) /\ Durable!Init
  <2> SUFFICES ASSUME FileInit PROVE DurableInv(w) /\ Durable!Init
    OBVIOUS
  <2>1. DurableInv(w)
    BY FaultInitially, ReadableInitially, LoneInitially DEF DurableInv
  <2>2. \A f \in Files : OnDisk(f) = {}
    BY DEF FileInit, OnDisk, textOf, Empty
  <2>3. InMemory("urls") = {} /\ InMemory("users") = {} /\ InMemory("deleted") = {}
    BY SentinelsAssumption DEF FileInit, StoreInit, InMemory
  <2>4. \A f \in Files : InMemory(f) = {}
    BY <2>3 DEF Files
  <2> QED BY <2>1, <2>2, <2>4 DEF Durable!Init, FileInit
<1>2. DurableInv(w) /\ [FileNext]_fileVars => DurableInv(w)'
  BY FaultInductive, ReadableInductive, LoneInductive DEF DurableInv
<1>3. DurableInv(w) /\ SavedOK' /\ [FileNext]_fileVars => [Durable!Next]_Durable!durable
  <2> SUFFICES ASSUME DurableInv(w), SavedOK', [FileNext]_fileVars
               PROVE  [Durable!Next]_Durable!durable
    OBVIOUS
  <2>1. CASE FileNext
    BY <2>1, StepRefines
  <2>2. CASE UNCHANGED fileVars
    <3>1. UNCHANGED <<store, dir, content, acked>>
      BY <2>2 DEF fileVars, diskVars
    <3>2. \A f \in Files : InMemory(f)' = InMemory(f) /\ OnDisk(f)' = OnDisk(f)
      BY <3>1, MemoryKept, FilesKept
    <3> QED BY <3>1, <3>2 DEF Durable!durable
  <2> QED BY <2>1, <2>2
<1>4. DurableInv(w) => SavedOK
  BY SavedInMemory DEF DurableInv
<1> QED BY <1>1, <1>2, <1>3, <1>4, PTL DEF FileSpec, RefinesDurableStore, Durable!Spec
=============================================================================
