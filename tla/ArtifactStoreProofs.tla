------------------------ MODULE ArtifactStoreProofs ------------------------
(***************************************************************************)
(* Proofs about ArtifactStore: the quota of a tenant is kept, a live row   *)
(* keeps its files, and nothing of a purged conversation stays, however    *)
(* many artifacts, listings and conversations there are and however often  *)
(* a command fails.                                                        *)
(***************************************************************************)
EXTENDS ArtifactStore, FiniteSetTheorems, TLAPS

(* Where a coroutine of each kind can be, and from where on there can be a *)
(* row, a directory and content.                                           *)
Places ==
  /\ \A x \in Listings :
       at[x] \in {"idle", "expiring", "listing", "scan", "done"}
  /\ \A c \in Conversations : at[c] \in {"idle", "purging", "done"}
  /\ \A a \in Artifacts :
       /\ at[a] # "purging"
       /\ a \in rows => at[a] \in {"refreshing", "done"}
       /\ a \in files => at[a] \in {"written", "refreshing", "done"}
       /\ a \in stored => at[a] \in {"flushed", "written", "refreshing", "done"}

(* What a cleanup or a purge has selected, or a capture deleted, has no    *)
(* files and has been committed; but for a purge, it has expired.          *)
Books ==
  /\ \A x \in Coroutines :
       /\ got[x] # {} => at[x] \in {"expiring", "purging"}
       /\ dead[x] \subseteq expired
       /\ x \notin Conversations => got[x] \subseteq expired
       /\ \A a \in got[x] \cup dead[x] :
            a \notin files /\ at[a] \in {"refreshing", "done"}

(* The advisory lock is held to the commit. *)
Holding == {a \in Artifacts : at[a] \in {"locked", "flushed", "written"}}

LockExclusive == \A a, b \in Holding : a = b

(* The rows fit the quota, and would with the row of whoever has inserted. *)
RoomFor(S) == Cardinality(Content(S)) <= Quota

QuotaInv ==
  Quota > 0 =>
    /\ RoomFor(rows \cap stored)
    /\ \A a \in Inserted : RoomFor(((rows \ dead[a]) \cup {a}) \cap stored)

(* A cleanup that removes what it has not listed spares what is live,      *)
(* unless it overlapped, as what is written and not committed does.        *)
ScanInv ==
  \A x \in Scanning : \A a \in Artifacts :
    /\ a \in rows \ expired => a \in live[x] \cup raced
    /\ at[a] = "written" => a \in raced

FilesInv ==
  /\ \A a \in (rows \cap stored) \ expired :
       a \in files \cup raced \cup hurt \cup got[conv[a]]
  /\ \A a \in stored : at[a] = "written" => a \in files \cup raced

(* What is on disk of a conversation that is being, or has been, purged    *)
(* was committed meanwhile, or is still to be, or was hurt; what has       *)
(* inserted its row keeps its conversation.                                *)
PurgeInv ==
  /\ PurgedIsGone
  /\ \A a \in Inserted : conv[a] \in convs
  /\ \A a \in files :
       \/ at[a] = "written"
       \/ a \in late \cup hurt
       \/ at[conv[a]] # "purging" /\ a \in rows

Inv ==
  /\ TypeOK /\ Places /\ Books /\ LockExclusive
  /\ QuotaInv /\ ScanInv /\ FilesInv /\ PurgeInv

-----------------------------------------------------------------------------
(* The bytes of a set of artifacts *)

(* The bytes of artifacts are finitely many. *)
LEMMA ContentFinite ==
  ASSUME NEW S \in SUBSET Artifacts
  PROVE  IsFiniteSet(Content(S)) /\ Cardinality(Content(S)) \in Nat
<1>1. IsFiniteSet(S) /\ IsFiniteSet(1..MaxFile)
  BY CoroutineAssumption, SizeAssumption, FS_Subset, FS_Interval
<1>2. IsFiniteSet(S \X (1..MaxFile))
  BY <1>1, FS_Product
<1>3. Content(S) \in SUBSET (S \X (1..MaxFile))
  BY DEF Content
<1>. QED BY <1>2, <1>3, FS_Subset, FS_CardinalityType

(* Fewer artifacts have no more bytes, and fit if the others do. *)
LEMMA RoomForFewer ==
  ASSUME NEW T \in SUBSET Artifacts, NEW S \in SUBSET T, RoomFor(T)
  PROVE  RoomFor(S)
<1>1. Content(S) \in SUBSET Content(T)
  BY DEF Content
<1>2. Cardinality(Content(S)) <= Cardinality(Content(T))
  BY <1>1, ContentFinite, FS_Subset
<1>3. S \in SUBSET Artifacts
  OBVIOUS
<1>. QED BY <1>2, <1>3, ContentFinite, SizeAssumption DEF RoomFor

(* One more artifact adds its size. *)
LEMMA RoomForOneMore ==
  ASSUME NEW S \in SUBSET Artifacts, NEW a \in Artifacts,
         Cardinality(Content(S)) + Size[a] <= Quota
  PROVE  RoomFor(S \cup {a})
<1>1. Size[a] \in Nat /\ Size[a] <= MaxFile
  BY SizeAssumption
<1>2. Content({a}) = {a} \X (1..Size[a])
  BY <1>1, SizeAssumption DEF Content
<1>3. IsFiniteSet({a}) /\ Cardinality({a}) = 1
  BY FS_Singleton
<1>4. IsFiniteSet(1..Size[a]) /\ Cardinality(1..Size[a]) = Size[a]
  BY <1>1, FS_Interval, SMTT(30)
<1>5. Cardinality({a} \X (1..Size[a])) =
        Cardinality({a}) * Cardinality(1..Size[a])
  BY <1>3, <1>4, FS_Product
<1>6. Content(S \cup {a}) = Content(S) \cup Content({a})
  BY DEF Content
<1>7. {a} \in SUBSET Artifacts
  OBVIOUS
<1>8. Content(S) \cap Content({a}) \in SUBSET Content(S)
  OBVIOUS
<1>9. Cardinality(Content(S) \cap Content({a})) \in Nat
  BY <1>8, ContentFinite, FS_Subset, FS_CardinalityType
<1>10. Cardinality(Content(S \cup {a})) =
         Cardinality(Content(S)) + Cardinality(Content({a}))
           - Cardinality(Content(S) \cap Content({a}))
  BY <1>6, <1>7, ContentFinite, FS_Union
<1>11. Cardinality(Content(S)) \in Nat
  BY ContentFinite
<1>12. Cardinality(Content({a})) = 1 * Size[a]
  BY <1>2, <1>3, <1>4, <1>5
<1>. QED BY <1>1, <1>12, <1>9, <1>10, <1>11, SizeAssumption DEF RoomFor

(* Less room is needed when rows are deleted and nobody inserts one. *)
LEMMA QuotaOfFewer ==
  ASSUME TypeOK, QuotaInv, rows' \subseteq rows, UNCHANGED stored,
         Inserted' \subseteq Inserted,
         \A a \in Inserted' : dead'[a] = dead[a]
  PROVE  QuotaInv'
<1>. SUFFICES ASSUME Quota > 0 PROVE QuotaInv'
  BY DEF QuotaInv
<1>1. RoomFor(rows' \cap stored)
  <2>1. rows' \cap stored \in SUBSET (rows \cap stored)
    OBVIOUS
  <2>2. rows \cap stored \in SUBSET Artifacts
    BY DEF TypeOK
  <2>. QED BY <2>1, <2>2, RoomForFewer DEF QuotaInv
<1>2. ASSUME NEW a \in Inserted'
      PROVE  RoomFor(((rows' \ dead'[a]) \cup {a}) \cap stored)
  <2>1. ((rows' \ dead'[a]) \cup {a}) \cap stored
          \in SUBSET (((rows \ dead[a]) \cup {a}) \cap stored)
    OBVIOUS
  <2>2. ((rows \ dead[a]) \cup {a}) \cap stored \in SUBSET Artifacts
    BY DEF TypeOK
  <2>3. RoomFor(((rows \ dead[a]) \cup {a}) \cap stored)
    BY DEF QuotaInv
  <2>. QED BY <2>1, <2>2, <2>3, RoomForFewer
<1>. QED BY <1>1, <1>2 DEF QuotaInv

-----------------------------------------------------------------------------
(* The steps *)

(* The files of the expired rows are deleted. *)
LEMMA DeleteExpiredFilesKeeps ==
  ASSUME Inv, NEW x \in Captures \cup Listings, DeleteExpiredFiles(x)
  PROVE  Inv'
<1>. USE CoroutineAssumption, SizeAssumption DEF Inv, TypeOK, Coroutines,
             Captures, Places, DeleteExpiredFiles, WithoutFiles, Goto, Fault,
             db, history
<1>1. TypeOK'
  OBVIOUS
<1>2. Places'
  OBVIOUS
<1>3. Books'
  BY DEF Books
<1>4. LockExclusive'
  BY DEF LockExclusive, Holding
<1>5. QuotaInv'
  BY DEF QuotaInv, Inserted
<1>6. ScanInv'
  BY DEF ScanInv, Scanning
<1>7. FilesInv'
  BY DEF FilesInv
<1>8. PurgeInv'
  BY DEF PurgeInv, PurgedIsGone, Inserted
<1>. QED BY <1>1, <1>2, <1>3, <1>4, <1>5, <1>6, <1>7, <1>8

(* The expired rows are deleted. *)
LEMMA DeleteExpiredRowsKeeps ==
  ASSUME Inv, NEW x \in Captures \cup Listings, DeleteExpiredRows(x)
  PROVE  Inv'
<1>. USE CoroutineAssumption, SizeAssumption DEF Inv, TypeOK, Coroutines,
             Captures, Places, DeleteExpiredRows, Goto, Fault, db, history
<1>1. TypeOK'
  OBVIOUS
<1>2. Places'
  OBVIOUS
<1>3. Books'
  BY DEF Books
<1>4. LockExclusive'
  BY DEF LockExclusive, Holding
<1>5. QuotaInv'
  <2>1. rows' \subseteq rows /\ stored' = stored
    OBVIOUS
  <2>2. Inserted' \subseteq Inserted
    BY DEF Inserted
  <2>3. \A a \in Inserted' : dead'[a] = dead[a]
    BY DEF Inserted
  <2>. QED BY <2>1, <2>2, <2>3, QuotaOfFewer
<1>6. ScanInv'
  BY DEF ScanInv, Scanning
<1>7. FilesInv'
  BY DEF FilesInv
<1>8. PurgeInv'
  BY DEF PurgeInv, PurgedIsGone, Inserted, Books
<1>. QED BY <1>1, <1>2, <1>3, <1>4, <1>5, <1>6, <1>7, <1>8

(* The live rows are listed. *)
LEMMA ListLiveRowsKeeps ==
  ASSUME Inv, NEW x \in Captures \cup Listings, ListLiveRows(x)
  PROVE  Inv'
<1>. USE CoroutineAssumption, SizeAssumption DEF Inv, TypeOK, Coroutines,
             Captures, Places, ListLiveRows, Goto, Fault, db, history
<1>1. TypeOK'
  BY DEF Listed
<1>2. Places'
  OBVIOUS
<1>3. Books'
  BY DEF Books
<1>4. LockExclusive'
  BY DEF LockExclusive, Holding
<1>5. QuotaInv'
  BY DEF QuotaInv, Inserted
<1>6. ScanInv'
  BY DEF ScanInv, Scanning, Listed, Books
<1>7. FilesInv'
  BY DEF FilesInv
<1>8. PurgeInv'
  BY DEF PurgeInv, PurgedIsGone, Inserted
<1>. QED BY <1>1, <1>2, <1>3, <1>4, <1>5, <1>6, <1>7, <1>8

(* What was not listed is removed. *)
LEMMA RemoveOrphansKeeps ==
  ASSUME Inv, NEW x \in Captures \cup Listings, RemoveOrphans(x)
  PROVE  Inv'
<1>. USE CoroutineAssumption, SizeAssumption DEF Inv, TypeOK, Coroutines,
             Captures, Places, RemoveOrphans, Goto, Fault, db, history
<1>1. TypeOK'
  OBVIOUS
<1>2. Places'
  BY DEF Scanning
<1>3. Books'
  BY DEF Books, Scanning
<1>4. LockExclusive'
  BY DEF LockExclusive, Holding
<1>5. QuotaInv'
  BY DEF QuotaInv, Inserted
<1>6. ScanInv'
  BY DEF ScanInv, Scanning
<1>7. FilesInv'
  BY DEF FilesInv, ScanInv, Scanning
<1>8. PurgeInv'
  BY DEF PurgeInv, PurgedIsGone, Inserted, Scanning
<1>. QED BY <1>1, <1>2, <1>3, <1>4, <1>5, <1>6, <1>7, <1>8

(* A creation begins. *)
LEMMA BeginKeeps ==
  ASSUME Inv, NEW a \in Artifacts, Begin(a)
  PROVE  Inv'
<1>. USE CoroutineAssumption, SizeAssumption DEF Inv, TypeOK, Coroutines,
             Captures, Places, Begin, Owned, Goto, Fault, db, history
<1>1. TypeOK'
  OBVIOUS
<1>2. Places'
  OBVIOUS
<1>3. Books'
  BY DEF Books
<1>4. LockExclusive'
  BY DEF LockExclusive, Holding
<1>5. QuotaInv'
  BY DEF QuotaInv, Inserted
<1>6. ScanInv'
  BY DEF ScanInv, Scanning
<1>7. FilesInv'
  BY DEF FilesInv
<1>8. PurgeInv'
  BY DEF PurgeInv, PurgedIsGone, Inserted
<1>. QED BY <1>1, <1>2, <1>3, <1>4, <1>5, <1>6, <1>7, <1>8

(* An upload is refused. *)
LEMMA RefuseKeeps ==
  ASSUME Inv, NEW a \in Artifacts, Refuse(a)
  PROVE  Inv'
<1>. USE CoroutineAssumption, SizeAssumption DEF Inv, TypeOK, Coroutines,
             Captures, Places, Refuse, Goto, Fault, db, history
<1>1. TypeOK'
  OBVIOUS
<1>2. Places'
  OBVIOUS
<1>3. Books'
  BY DEF Books
<1>4. LockExclusive'
  BY DEF LockExclusive, Holding
<1>5. QuotaInv'
  BY DEF QuotaInv, Inserted
<1>6. ScanInv'
  BY DEF ScanInv, Scanning
<1>7. FilesInv'
  BY DEF FilesInv
<1>8. PurgeInv'
  BY DEF PurgeInv, PurgedIsGone, Inserted
<1>. QED BY <1>1, <1>2, <1>3, <1>4, <1>5, <1>6, <1>7, <1>8

(* A creation takes the lock. *)
LEMMA LockKeeps ==
  ASSUME Inv, NEW a \in Artifacts, Lock(a)
  PROVE  Inv'
<1>. USE CoroutineAssumption, SizeAssumption DEF Inv, TypeOK, Coroutines,
             Captures, Places, Lock, Goto, Fault, db, history
<1>1. TypeOK'
  OBVIOUS
<1>2. Places'
  OBVIOUS
<1>3. Books'
  BY DEF Books
<1>4. LockExclusive'
  BY DEF LockExclusive, Holding, LockAvailable, LockFree
<1>5. QuotaInv'
  BY DEF QuotaInv, Inserted
<1>6. ScanInv'
  BY DEF ScanInv, Scanning
<1>7. FilesInv'
  BY DEF FilesInv
<1>8. PurgeInv'
  BY DEF PurgeInv, PurgedIsGone, Inserted
<1>. QED BY <1>1, <1>2, <1>3, <1>4, <1>5, <1>6, <1>7, <1>8

(* A row is inserted, or the creation refused. *)
LEMMA InsertKeeps ==
  ASSUME Inv, NEW a \in Artifacts, Insert(a)
  PROVE  Inv'
<1>. USE CoroutineAssumption, SizeAssumption DEF Inv, TypeOK, Coroutines,
             Captures, Places, Insert, Goto, Fault, db, history
<1>1. TypeOK'
  BY DEF Kept
<1>2. Places'
  BY DEF Kept
<1>3. Books'
  BY DEF Books
<1>4. LockExclusive'
  BY DEF LockExclusive, Holding
<1>5. QuotaInv'
  <2>. SUFFICES ASSUME Quota > 0, at'[a] = "flushed" PROVE QuotaInv'
    <3>1. CASE at'[a] = "done"
      <4>1. Inserted' = Inserted /\ rows' = rows /\ stored' = stored
        BY <3>1 DEF Inserted
      <4>2. \A b \in Inserted' : dead'[b] = dead[b]
        BY <4>1 DEF Inserted
      <4>. QED BY <4>1, <4>2, QuotaOfFewer
    <3>. QED BY <3>1 DEF QuotaInv
  <2>1. Inserted' = {a} /\ rows' = rows /\ dead' = dead
    BY DEF LockExclusive, Holding, Inserted
  <2>2. a \notin rows /\ stored' = stored \cup Kept(a) /\ Kept(a) \subseteq {a}
    BY DEF Kept
  <2>3. RoomFor(rows' \cap stored')
    <3>1. rows' \cap stored' = rows \cap stored
      BY <2>1, <2>2
    <3>. QED BY <3>1 DEF QuotaInv
  <2>4. RoomFor(((rows' \ dead'[a]) \cup {a}) \cap stored')
    <3>. DEFINE R == (rows \ dead[a]) \cap stored
    <3>1. R \in SUBSET Artifacts /\ R \in SUBSET (rows \cap stored)
      OBVIOUS
    <3>2. CASE Kept(a) = {a}
      <4>. Fits(a)
        BY <3>2 DEF Kept
      <4>1. Cardinality(Content(R)) + Size[a] <= Quota
        BY DEF Fits, Bytes
      <4>2. RoomFor(R \cup {a})
        BY <3>1, <4>1, RoomForOneMore
      <4>3. ((rows' \ dead'[a]) \cup {a}) \cap stored' = R \cup {a}
        BY <2>1, <2>2, <3>2
      <4>. QED BY <4>2, <4>3
    <3>3. CASE Kept(a) = {}
      <4>1. ((rows' \ dead'[a]) \cup {a}) \cap stored' = R
        BY <2>1, <2>2, <3>3
      <4>2. RoomFor(rows \cap stored) /\ rows \cap stored \in SUBSET Artifacts
        BY DEF QuotaInv
      <4>3. RoomFor(R)
        BY <3>1, <4>2, RoomForFewer
      <4>. QED BY <4>1, <4>3
    <3>. QED BY <2>2, <3>2, <3>3
  <2>. QED BY <2>1, <2>3, <2>4 DEF QuotaInv
<1>6. ScanInv'
  BY DEF ScanInv, Scanning
<1>7. FilesInv'
  BY DEF FilesInv, Kept
<1>8. PurgeInv'
  BY DEF PurgeInv, PurgedIsGone, Inserted
<1>. QED BY <1>1, <1>2, <1>3, <1>4, <1>5, <1>6, <1>7, <1>8

(* The files of an upload are written. *)
LEMMA WriteUploadKeeps ==
  ASSUME Inv, NEW a \in Artifacts, WriteUpload(a)
  PROVE  Inv'
<1>. USE CoroutineAssumption, SizeAssumption DEF Inv, TypeOK, Coroutines,
             Captures, Places, WriteUpload, Overtaking, Goto, Fault, db,
             history
<1>1. TypeOK'
  OBVIOUS
<1>2. Places'
  OBVIOUS
<1>3. Books'
  BY DEF Books
<1>4. LockExclusive'
  BY DEF LockExclusive, Holding
<1>5. QuotaInv'
  BY DEF QuotaInv, Inserted
<1>6. ScanInv'
  BY DEF ScanInv, Scanning
<1>7. FilesInv'
  BY DEF FilesInv
<1>8. PurgeInv'
  BY DEF PurgeInv, PurgedIsGone, Inserted
<1>. QED BY <1>1, <1>2, <1>3, <1>4, <1>5, <1>6, <1>7, <1>8

(* The files of a capture are written. *)
LEMMA WriteCaptureKeeps ==
  ASSUME Inv, NEW a \in Artifacts, WriteCapture(a)
  PROVE  Inv'
<1>. USE CoroutineAssumption, SizeAssumption DEF Inv, TypeOK, Coroutines,
             Captures, Places, WriteCapture, Overtaking, Goto, Fault, db,
             history
<1>1. TypeOK'
  OBVIOUS
<1>2. Places'
  OBVIOUS
<1>3. Books'
  BY DEF Books
<1>4. LockExclusive'
  BY DEF LockExclusive, Holding
<1>5. QuotaInv'
  BY DEF QuotaInv, Inserted
<1>6. ScanInv'
  BY DEF ScanInv, Scanning
<1>7. FilesInv'
  BY DEF FilesInv
<1>8. PurgeInv'
  BY DEF PurgeInv, PurgedIsGone, Inserted
<1>. QED BY <1>1, <1>2, <1>3, <1>4, <1>5, <1>6, <1>7, <1>8

(* The row is committed. *)
LEMMA CommitKeeps ==
  ASSUME Inv, NEW a \in Artifacts, Commit(a)
  PROVE  Inv'
<1>. USE CoroutineAssumption, SizeAssumption DEF Inv, TypeOK, Coroutines,
             Captures, Places, Commit, Goto, Fault, db, history
<1>1. TypeOK'
  OBVIOUS
<1>2. Places'
  OBVIOUS
<1>3. Books'
  BY DEF Books
<1>4. LockExclusive'
  BY DEF LockExclusive, Holding
<1>5. QuotaInv'
  BY DEF QuotaInv, Inserted, LockExclusive, Holding
<1>6. ScanInv'
  BY DEF ScanInv, Scanning
<1>7. FilesInv'
  BY DEF FilesInv
<1>8. PurgeInv'
  BY DEF PurgeInv, PurgedIsGone, Inserted, Books
<1>. QED BY <1>1, <1>2, <1>3, <1>4, <1>5, <1>6, <1>7, <1>8

(* The row of an upload is read again. *)
LEMMA RefreshKeeps ==
  ASSUME Inv, NEW a \in Artifacts, Refresh(a)
  PROVE  Inv'
<1>. USE CoroutineAssumption, SizeAssumption DEF Inv, TypeOK, Coroutines,
             Captures, Places, Refresh, Goto, Fault, db, history
<1>1. TypeOK'
  OBVIOUS
<1>2. Places'
  OBVIOUS
<1>3. Books'
  BY DEF Books
<1>4. LockExclusive'
  BY DEF LockExclusive, Holding
<1>5. QuotaInv'
  BY DEF QuotaInv, Inserted
<1>6. ScanInv'
  BY DEF ScanInv, Scanning
<1>7. FilesInv'
  BY DEF FilesInv
<1>8. PurgeInv'
  BY DEF PurgeInv, PurgedIsGone, Inserted
<1>. QED BY <1>1, <1>2, <1>3, <1>4, <1>5, <1>6, <1>7, <1>8

(* A command of a creation fails. *)
LEMMA CreationFailsKeeps ==
  ASSUME Inv, NEW a \in Artifacts, CreationFails(a)
  PROVE  Inv'
<1>. USE CoroutineAssumption, SizeAssumption DEF Inv, TypeOK, Coroutines,
             Captures, Places, CreationFails, WithoutFiles, Goto, Fault,
             db, history
<1>1. TypeOK'
  OBVIOUS
<1>2. Places'
  OBVIOUS
<1>3. Books'
  BY DEF Books
<1>4. LockExclusive'
  BY DEF LockExclusive, Holding
<1>5. QuotaInv'
  <2>1. CASE rows' = rows
    <3>1. Inserted' \subseteq Inserted
      BY DEF Inserted
    <3>2. \A b \in Inserted' : dead'[b] = dead[b]
      BY DEF Inserted
    <3>. QED BY <2>1, <3>1, <3>2, QuotaOfFewer
  <2>2. CASE at[a] = "written" /\ rows' = (rows \ dead[a]) \cup {a}
    <3>1. Inserted' = {}
      BY <2>2 DEF LockExclusive, Holding, Inserted
    <3>. QED BY <2>2, <3>1 DEF QuotaInv, Inserted
  <2>. QED BY <2>1, <2>2
<1>6. ScanInv'
  BY DEF ScanInv, Scanning
<1>7. FilesInv'
  BY DEF FilesInv, Inserted
<1>8. PurgeInv'
  BY DEF PurgeInv, PurgedIsGone, Inserted, Books
<1>. QED BY <1>1, <1>2, <1>3, <1>4, <1>5, <1>6, <1>7, <1>8

(* A read finds no files. *)
LEMMA ReadKeeps ==
  ASSUME Inv, NEW a \in Artifacts, Read(a)
  PROVE  Inv'
<1>. USE CoroutineAssumption, SizeAssumption DEF Inv, TypeOK, Coroutines,
             Captures, Places, Read, Found, Goto, Fault, db, history
<1>1. TypeOK'
  OBVIOUS
<1>2. Places'
  OBVIOUS
<1>3. Books'
  BY DEF Books
<1>4. LockExclusive'
  BY DEF LockExclusive, Holding
<1>5. QuotaInv'
  BY DEF QuotaInv, Inserted
<1>6. ScanInv'
  BY DEF ScanInv, Scanning
<1>7. FilesInv'
  BY DEF FilesInv
<1>8. PurgeInv'
  BY DEF PurgeInv, PurgedIsGone, Inserted
<1>. QED BY <1>1, <1>2, <1>3, <1>4, <1>5, <1>6, <1>7, <1>8

(* A row expires. *)
LEMMA ExpireKeeps ==
  ASSUME Inv, NEW a \in Artifacts, Expire(a)
  PROVE  Inv'
<1>. USE CoroutineAssumption, SizeAssumption DEF Inv, TypeOK, Coroutines,
             Captures, Places, Expire, Goto, Fault, db, history
<1>1. TypeOK'
  OBVIOUS
<1>2. Places'
  OBVIOUS
<1>3. Books'
  BY DEF Books
<1>4. LockExclusive'
  BY DEF LockExclusive, Holding
<1>5. QuotaInv'
  BY DEF QuotaInv, Inserted
<1>6. ScanInv'
  BY DEF ScanInv, Scanning
<1>7. FilesInv'
  BY DEF FilesInv
<1>8. PurgeInv'
  BY DEF PurgeInv, PurgedIsGone, Inserted
<1>. QED BY <1>1, <1>2, <1>3, <1>4, <1>5, <1>6, <1>7, <1>8

(* A purge deletes the files. *)
LEMMA DeleteFilesKeeps ==
  ASSUME Inv, NEW c \in Conversations, DeleteFiles(c)
  PROVE  Inv'
<1>. USE CoroutineAssumption, SizeAssumption DEF Inv, TypeOK, Coroutines,
             Captures, Places, DeleteFiles, WithoutFiles, Goto, Fault,
             db, history
<1>1. TypeOK'
  BY DEF Purged, RowsOf, InFlight
<1>2. Places'
  OBVIOUS
<1>3. Books'
  BY DEF Books, Purged, RowsOf
<1>4. LockExclusive'
  BY DEF LockExclusive, Holding
<1>5. QuotaInv'
  BY DEF QuotaInv, Inserted
<1>6. ScanInv'
  BY DEF ScanInv, Scanning
<1>7. FilesInv'
  BY DEF FilesInv, Purged, RowsOf, Books
<1>8. PurgeInv'
  BY DEF PurgeInv, PurgedIsGone, Inserted, Purged, RowsOf
<1>. QED BY <1>1, <1>2, <1>3, <1>4, <1>5, <1>6, <1>7, <1>8

(* A purge deletes the rows and the conversation. *)
LEMMA DeleteConversationKeeps ==
  ASSUME Inv, NEW c \in Conversations, DeleteConversation(c)
  PROVE  Inv'
<1>. USE CoroutineAssumption, SizeAssumption DEF Inv, TypeOK, Coroutines,
             Captures, Places, DeleteConversation, Goto, Fault, db, history
<1>1. TypeOK'
  OBVIOUS
<1>2. Places'
  OBVIOUS
<1>3. Books'
  BY DEF Books
<1>4. LockExclusive'
  BY DEF LockExclusive, Holding
<1>5. QuotaInv'
  <2>1. rows' \subseteq rows /\ stored' = stored
    OBVIOUS
  <2>2. Inserted' = Inserted /\ dead' = dead
    BY DEF Inserted
  <2>. QED BY <2>1, <2>2, QuotaOfFewer
<1>6. ScanInv'
  BY DEF ScanInv, Scanning
<1>7. FilesInv'
  BY DEF FilesInv, RowsOf
<1>8. PurgeInv'
  BY DEF PurgeInv, PurgedIsGone, Inserted, RowsOf
<1>. QED BY <1>1, <1>2, <1>3, <1>4, <1>5, <1>6, <1>7, <1>8

(* A coroutine is cancelled. *)
LEMMA CancelledKeeps ==
  ASSUME Inv, NEW x \in Coroutines, Cancelled(x)
  PROVE  Inv'
<1>. USE CoroutineAssumption, SizeAssumption DEF Inv, TypeOK, Coroutines,
             Captures, Places, Cancelled, Goto, Fault, db, history
<1>1. TypeOK'
  BY DEF Inserted
<1>2. Places'
  OBVIOUS
<1>3. Books'
  BY DEF Books
<1>4. LockExclusive'
  BY DEF LockExclusive, Holding
<1>5. QuotaInv'
  BY DEF QuotaInv, Inserted
<1>6. ScanInv'
  BY DEF ScanInv, Scanning
<1>7. FilesInv'
  BY DEF FilesInv
<1>8. PurgeInv'
  BY DEF PurgeInv, PurgedIsGone, Inserted
<1>. QED BY <1>1, <1>2, <1>3, <1>4, <1>5, <1>6, <1>7, <1>8

(* The invariant is inductive. *)
LEMMA InvHolds == Spec => []Inv
<1>1. ASSUME Init PROVE Inv
  <2>. USE <1>1, CoroutineAssumption DEF Init, Coroutines, Captures
  <2>1. TypeOK
    BY SizeAssumption DEF TypeOK
  <2>2. Places /\ Books /\ LockExclusive
    BY DEF Places, Books, LockExclusive, Holding
  <2>3. QuotaInv
    <3>1. rows \cap stored = {} /\ Content({}) = {} /\ Inserted = {}
      BY DEF Content, Inserted
    <3>. QED BY <3>1, SizeAssumption, FS_EmptySet, SMTT(30) DEF QuotaInv, RoomFor
  <2>4. ScanInv /\ FilesInv
    BY DEF ScanInv, Scanning, FilesInv
  <2>5. PurgeInv
    BY DEF PurgeInv, PurgedIsGone, Inserted
  <2>. QED BY <2>1, <2>2, <2>3, <2>4, <2>5 DEF Inv
<1>2. Inv /\ [Next]_vars => Inv'
  <2>1. ASSUME Inv, UNCHANGED vars PROVE Inv'
    BY <2>1 DEF vars, Inv, TypeOK, Places, Books, LockExclusive, Holding,
                QuotaInv, Inserted, ScanInv, Scanning, FilesInv, PurgeInv,
                PurgedIsGone
  <2>. QED
    BY <2>1, DeleteExpiredFilesKeeps, DeleteExpiredRowsKeeps, ListLiveRowsKeeps,
       RemoveOrphansKeeps, BeginKeeps, RefuseKeeps, LockKeeps, InsertKeeps,
       WriteUploadKeeps, WriteCaptureKeeps, CommitKeeps, RefreshKeeps,
       CreationFailsKeeps, ReadKeeps, ExpireKeeps,
       DeleteFilesKeeps, DeleteConversationKeeps, CancelledKeeps DEF Next
<1>. QED BY <1>1, <1>2, PTL DEF Spec

-----------------------------------------------------------------------------

(* The variables keep their types. *)
THEOREM Typed == Spec => []TypeOK
<1>1. Inv => TypeOK
  BY DEF Inv
<1>. QED BY <1>1, InvHolds, PTL

(* However many artifacts of whatever size are created at once, what the   *)
(* rows store fits the quota of the tenant.                                *)
THEOREM QuotaIsKept == Spec => []QuotaKept
<1>1. Inv => QuotaKept
  BY DEF Inv, QuotaInv, QuotaKept, RoomFor, Bytes
<1>. QED BY <1>1, InvHolds, PTL

(* However many cleanups and purges there are, the files of a live row     *)
(* stay, unless a cleanup stood between listing and removal while its      *)
(* creation stood between write and commit, or a fault left the row.       *)
THEOREM LiveFilesAreKept == Spec => []LiveFilesKept
<1>1. Inv => LiveFilesKept
  BY CoroutineAssumption
     DEF Inv, TypeOK, Coroutines, Places, Books, FilesInv, LiveFilesKept
<1>. QED BY <1>1, InvHolds, PTL

(* A purge leaves nothing on disk but what was committed while it ran, or  *)
(* what a fault left there.                                                *)
THEOREM PurgedIsRemoved == Spec => []PurgedIsGone
<1>1. Inv => PurgedIsGone
  BY DEF Inv, PurgeInv
<1>. QED BY <1>1, InvHolds, PTL
=============================================================================
