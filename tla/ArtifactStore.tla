--------------------------- MODULE ArtifactStore ---------------------------
(***************************************************************************)
(* The artifact store (backend/app/core/artifacts/service.py and the       *)
(* endpoints that use it): rows in PostgreSQL and, for each row with       *)
(* content, a directory on disk.                                           *)
(*                                                                         *)
(* An artifact is created by an upload or by the capture of a file the     *)
(* agent writes; a capture first cleans up, as a listing does; the purge   *)
(* of a conversation deletes its artifacts.  Each is a coroutine with a    *)
(* transaction of its own: what it does to the disk happens at once and    *)
(* for everybody, what it does to the rows when it commits.  A step is     *)
(* what a coroutine does from one await of the database to the next.       *)
(*                                                                         *)
(* PostgreSQL is at READ COMMITTED: a statement sees what was committed    *)
(* before it; a DELETE waits for the transaction that deletes the same     *)
(* row; an INSERT holds the conversation it refers to; deleting a          *)
(* conversation deletes its rows.  All is of one tenant, so that the       *)
(* cleanup of one tenant and that of all are the same.                     *)
(***************************************************************************)
EXTENDS Integers, FiniteSets

CONSTANTS
  Artifacts,     \* artifacts, each with the coroutine that creates it
  Uploads,       \* those that are uploads; the others are captures
  Listings,      \* list_artifacts requests
  Conversations, \* conversations, each with the request that purges it
  Size,          \* bytes to store for each artifact, 0 for an oversized capture
  MaxFile,       \* what the limits let be stored for one artifact
  Quota,         \* artifact_tenant_quota_bytes
  MaxFaults      \* bound: failed commands and cancelled requests

ASSUME CoroutineAssumption ==
  /\ IsFiniteSet(Artifacts) /\ Uploads \subseteq Artifacts
  /\ Conversations # {}
  /\ Artifacts \cap Listings = {} /\ Artifacts \cap Conversations = {}
  /\ Listings \cap Conversations = {}

ASSUME SizeAssumption ==
  /\ MaxFile \in Nat /\ Size \in [Artifacts -> 0..MaxFile]
  /\ Quota \in Nat /\ MaxFaults \in Nat

Captures == Artifacts \ Uploads
Coroutines == Artifacts \cup Listings \cup Conversations

VARIABLES
  at,       \* where each coroutine is
  conv,     \* the conversation of each artifact
  stored,   \* artifacts whose content is stored, not only their metadata
  rows,     \* committed rows
  convs,    \* committed conversations
  expired,  \* rows past their expires_at
  missing,  \* rows marked ARTIFACT_STATE_MISSING
  files,    \* directories on disk
  got,      \* rows a cleanup or a purge has selected
  dead,     \* rows the open transaction of each capture has deleted
  live,     \* live_ids of each cleanup
  faults,
  raced,    \* history: creations between whose write and whose commit there
            \* was a cleanup between its listing and its removals
  late,     \* history: creations that committed under a purge's feet
  hurt      \* history: artifacts whose rows or files a fault left behind

vars == <<at, conv, stored, rows, convs, expired, missing, files, got, dead,
          live, faults, raced, late, hurt>>

db      == <<rows, convs, expired, missing>>
history == <<raced, late, hurt>>

Goto(x, place) == at' = [at EXCEPT ![x] = place]

Fault == faults < MaxFaults /\ faults' = faults + 1

InFlight == {a \in Artifacts : at[a] \notin {"idle", "done"}}
Scanning == {x \in Captures \cup Listings : at[x] = "scan"}

(* rows another transaction has deleted and not committed *)
Held(x) == UNION {dead[y] : y \in Coroutines \ {x}}

(* creations that have inserted their row and not committed it *)
Inserted == {a \in Artifacts : at[a] \in {"flushed", "written"}}

(* the creation that writes now, if a cleanup has listed and not removed *)
Overtaking(a) == IF Scanning = {} THEN {} ELSE {a}

RowsOf(c) == {a \in rows : conv[a] = c}

(* _delete_artifact_files: what is on disk without the files of S, which   *)
(* may be gone already                                                     *)
WithoutFiles(S) == files \ S

-----------------------------------------------------------------------------
(* cleanup_expired_artifacts and cleanup_orphaned_artifact_files *)

(* The rows that have expired are selected and their files deleted. *)
DeleteExpiredFiles(x) ==
  /\ at[x] = IF x \in Listings THEN "idle" ELSE "cleaning"
  /\ got' = [got EXCEPT ![x] = rows \cap expired]
  /\ files' = WithoutFiles(got'[x])
  /\ Goto(x, "expiring")
  /\ UNCHANGED <<conv, stored, db, dead, live, faults, history>>

(* The DELETE of the rows, which a listing commits at once. *)
DeleteExpiredRows(x) ==
  /\ at[x] = "expiring"
  /\ got[x] \cap Held(x) = {}
  /\ IF x \in Listings
     THEN rows' = rows \ got[x] /\ UNCHANGED dead
     ELSE dead' = [dead EXCEPT ![x] = got[x] \cap rows] /\ UNCHANGED rows
  /\ got' = [got EXCEPT ![x] = {}]
  /\ Goto(x, "listing")
  /\ UNCHANGED <<conv, stored, convs, expired, missing, files, live, faults,
                 history>>

(* select(Artifact.id): the committed rows of every conversation *)
ListedInConversation(x) == \* mutant: the rows of one conversation only
  {a \in rows \ dead[x] : conv[a] = CHOOSE c \in Conversations : TRUE}

Listed(x) == rows \ dead[x]

ListLiveRows(x) ==
  /\ at[x] = "listing"
  /\ live' = [live EXCEPT ![x] = Listed(x)]
  /\ Goto(x, "scan")
  /\ raced' = raced \cup {a \in Artifacts : at[a] = "written"}
  /\ UNCHANGED <<conv, stored, db, files, got, dead, faults, late, hurt>>

RemoveOrphans(x) ==
  /\ x \in Scanning
  /\ files' = files \cap live[x]
  /\ live' = [live EXCEPT ![x] = {}]
  /\ Goto(x, IF x \in Listings THEN "done" ELSE "waiting")
  /\ UNCHANGED <<conv, stored, db, got, dead, faults, history>>

-----------------------------------------------------------------------------
(* create_uploaded_artifact and capture_file_write_artifact *)

(* _get_owned_conversation *)
Owned(c) == c \in convs

(* The conversation exists as the request or the agent's turn begins. *)
Begin(a) ==
  /\ at[a] = "idle" /\ a \in Artifacts
  /\ \E c \in Conversations :
       /\ Owned(c)
       /\ conv' = [conv EXCEPT ![a] = c]
  /\ Goto(a, IF a \in Uploads THEN "waiting" ELSE "cleaning")
  /\ UNCHANGED <<stored, db, files, got, dead, live, faults, history>>

(* An upload is refused for its name, type, size or content. *)
Refuse(a) ==
  /\ at[a] = "idle" /\ a \in Uploads
  /\ Goto(a, "done")
  /\ UNCHANGED <<conv, stored, db, files, got, dead, live, faults, history>>

LockFree == \A y \in Artifacts : at[y] \notin {"locked", "flushed", "written"}

LockIgnored == TRUE \* mutant: no advisory lock

LockAvailable == LockFree

(* _lock_tenant_artifact_quota *)
Lock(a) ==
  /\ at[a] = "waiting"
  /\ LockAvailable
  /\ Goto(a, "locked")
  /\ UNCHANGED <<conv, stored, db, files, got, dead, live, faults, history>>

(* The sum over the rows, which count what they store, as a set of bytes. *)
Content(S) == {b \in S \X (1..MaxFile) : b[2] <= Size[b[1]]}

Bytes(S) == Cardinality(Content(S \cap stored))

Fits(a) == Quota = 0 \/ Bytes(rows \ dead[a]) + Size[a] <= Quota

(* A capture without room, or too large to be kept, has metadata only. *)
Kept(a) == IF Fits(a) /\ (Size[a] > 0 \/ a \in Uploads) THEN {a} ELSE {}

(* The quota is checked and the row inserted, if the conversation still    *)
(* exists.  An upload without room is refused.                             *)
Insert(a) ==
  /\ at[a] = "locked"
  /\ \/ /\ Fits(a) \/ a \in Captures
        /\ conv[a] \in convs
        /\ stored' = stored \cup Kept(a)
        /\ Goto(a, "flushed")
        /\ UNCHANGED dead
     \/ /\ (a \in Uploads /\ ~Fits(a)) \/ conv[a] \notin convs
        /\ Goto(a, "done")
        /\ dead' = [dead EXCEPT ![a] = {}]
        /\ UNCHANGED stored
  /\ UNCHANGED <<conv, db, files, got, live, faults, history>>

WriteUpload(a) ==
  /\ at[a] = "flushed" /\ a \in Uploads
  /\ files' = files \cup {a}
  /\ raced' = raced \cup Overtaking(a)
  /\ Goto(a, "written")
  /\ UNCHANGED <<conv, stored, db, got, dead, live, faults, late, hurt>>

WriteCapture(a) ==
  /\ at[a] = "flushed" /\ a \in Captures
  /\ files' = IF a \in stored THEN files \cup {a} ELSE files
  /\ raced' = raced \cup Overtaking(a)
  /\ Goto(a, "written")
  /\ UNCHANGED <<conv, stored, db, got, dead, live, faults, late, hurt>>

(* An upload refreshes its row after the commit, inside the same try. *)
Commit(a) ==
  /\ at[a] = "written"
  /\ rows' = (rows \ dead[a]) \cup {a}
  /\ dead' = [dead EXCEPT ![a] = {}]
  /\ Goto(a, IF a \in Uploads THEN "refreshing" ELSE "done")
  /\ late' = IF at[conv[a]] = "purging" THEN late \cup {a} ELSE late
  /\ UNCHANGED <<conv, stored, convs, expired, missing, files, got, live,
                 faults, raced, hurt>>

(* The refresh expires the instance, so that, if it finds no row or fails, *)
(* what should delete the files raises as it reads where they are.         *)
Refresh(a) ==
  /\ at[a] = "refreshing"
  /\ Goto(a, "done")
  /\ UNCHANGED <<conv, stored, db, files, got, dead, live, faults, history>>

(* A command of a creation fails: the transaction is rolled back.  When it *)
(* is the commit, the files are deleted, whether it took effect or not;    *)
(* else they stay, with those that could be written of the artifact.       *)
CreationFails(a) ==
  /\ a \in InFlight
  /\ Fault
  /\ \/ /\ at[a] \in {"cleaning", "expiring", "listing", "waiting", "locked",
                     "refreshing"}
        /\ UNCHANGED <<rows, files>>
     \/ /\ at[a] = "flushed"
        /\ files' \in {files, files \cup {a}}
        /\ UNCHANGED rows
     \/ /\ at[a] = "written"
        /\ files' = WithoutFiles({a})
        /\ rows' \in {rows, (rows \ dead[a]) \cup {a}}
  /\ hurt' = hurt \cup ({a} \cap Inserted)
  /\ got' = [got EXCEPT ![a] = {}]
  /\ dead' = [dead EXCEPT ![a] = {}]
  /\ live' = [live EXCEPT ![a] = {}]
  /\ Goto(a, "done")
  /\ UNCHANGED <<conv, stored, convs, expired, missing, raced, late>>

(* The request is cancelled at an await, or the process dies: the          *)
(* transaction is rolled back and the files stay as they are.              *)
Cancelled(x) ==
  /\ at[x] \notin {"idle", "done"}
  /\ Fault
  /\ hurt' = hurt \cup IF x \in Conversations THEN got[x] ELSE {x} \cap Inserted
  /\ got' = [got EXCEPT ![x] = {}]
  /\ dead' = [dead EXCEPT ![x] = {}]
  /\ live' = [live EXCEPT ![x] = {}]
  /\ Goto(x, "done")
  /\ UNCHANGED <<conv, stored, db, files, raced, late>>

-----------------------------------------------------------------------------
(* delete_conversation with purge *)

PurgedNone(c) == {} \* mutant: leaves the artifacts to the cascade

Purged(c) == RowsOf(c)

DeleteFiles(c) ==
  /\ c \in convs /\ at[c] = "idle"
  /\ got' = [got EXCEPT ![c] = Purged(c)]
  /\ files' = WithoutFiles(Purged(c))
  /\ Goto(c, "purging")
  /\ UNCHANGED <<conv, stored, db, dead, live, faults, history>>

(* The rows and the conversation are deleted, with the rows that came      *)
(* meanwhile; the DELETE waits for those who hold one of them.             *)
DeleteConversation(c) ==
  /\ at[c] = "purging"
  /\ \A a \in Inserted : conv[a] # c
  /\ RowsOf(c) \cap Held(c) = {}
  /\ rows' = rows \ RowsOf(c)
  /\ convs' = convs \ {c}
  /\ got' = [got EXCEPT ![c] = {}]
  /\ Goto(c, "done")
  /\ UNCHANGED <<conv, stored, expired, missing, files, dead, live, faults,
                 history>>

-----------------------------------------------------------------------------
(* get_artifact_content and get_artifact_diff *)

(* _get_owned_artifact: the row is joined with its conversation *)
Found(a) == a \in rows /\ Owned(conv[a])

(* read_artifact_content: something is stored and nothing is there *)
ContentMissing(a) == a \in stored \ files

Read(a) ==
  /\ Found(a) /\ a \notin missing
  /\ ContentMissing(a)
  /\ \A x \in Coroutines : a \notin dead[x]
  /\ missing' = missing \cup {a}
  /\ UNCHANGED <<at, conv, stored, rows, convs, expired, files, got, dead, live,
                 faults, history>>

(* Time passes. *)
Expire(a) ==
  /\ a \in rows \ expired
  /\ expired' = expired \cup {a}
  /\ UNCHANGED <<at, conv, stored, rows, convs, missing, files, got, dead, live,
                 faults, history>>

-----------------------------------------------------------------------------

Init ==
  /\ at = [x \in Coroutines |-> "idle"]
  /\ conv = [a \in Artifacts |-> CHOOSE c \in Conversations : TRUE]
  /\ stored = {} /\ rows = {} /\ convs = Conversations
  /\ expired = {} /\ missing = {} /\ files = {}
  /\ got = [x \in Coroutines |-> {}]
  /\ dead = [x \in Coroutines |-> {}]
  /\ live = [x \in Coroutines |-> {}]
  /\ faults = 0
  /\ raced = {} /\ late = {} /\ hurt = {}

Next ==
  \/ \E x \in Captures \cup Listings :
       \/ DeleteExpiredFiles(x) \/ DeleteExpiredRows(x)
       \/ ListLiveRows(x) \/ RemoveOrphans(x)
  \/ \E a \in Artifacts :
       \/ Begin(a) \/ Refuse(a) \/ Lock(a) \/ Insert(a) \/ WriteUpload(a)
       \/ WriteCapture(a) \/ Commit(a) \/ Refresh(a) \/ CreationFails(a)
       \/ Read(a) \/ Expire(a)
  \/ \E c \in Conversations : DeleteFiles(c) \/ DeleteConversation(c)
  \/ \E x \in Coroutines : Cancelled(x)

Spec == Init /\ [][Next]_vars

-----------------------------------------------------------------------------

(* Every variable has its type. *)
TypeOK ==
  /\ at \in [Coroutines -> {"idle", "cleaning", "expiring", "listing", "scan",
                            "waiting", "locked", "flushed", "written",
                            "refreshing", "purging", "done"}]
  /\ conv \in [Artifacts -> Conversations]
  /\ stored \subseteq Artifacts /\ rows \subseteq Artifacts
  /\ convs \subseteq Conversations
  /\ expired \subseteq Artifacts /\ missing \subseteq Artifacts
  /\ files \subseteq Artifacts
  /\ got \in [Coroutines -> SUBSET Artifacts]
  /\ dead \in [Coroutines -> SUBSET Artifacts]
  /\ live \in [Coroutines -> SUBSET Artifacts]
  /\ faults \in 0..MaxFaults
  /\ raced \subseteq Artifacts /\ late \subseteq Artifacts
  /\ hurt \subseteq Artifacts

(* What the rows of the tenant store fits its quota, although each         *)
(* creation adds to a sum it has read before.                              *)
QuotaKept == Quota > 0 => Bytes(rows) <= Quota

(* A row that has not expired keeps its files, whoever cleans up or purges *)
(* beside it, an upload's as well as a capture's.  Three ways to lose them *)
(* are left out, all defects of the code: a cleanup stood between its      *)
(* listing and its removals while the creation stood between its write and *)
(* its commit; the commit took effect and its answer was lost; the purge   *)
(* that deleted the files did not delete the row, or has not yet.          *)
LiveFilesKept ==
  \A a \in (rows \cap stored) \ expired :
    a \in files \cup raced \cup hurt \/ at[conv[a]] = "purging"

(* Nothing of a purged conversation stays on disk, but what was committed  *)
(* after the purge had selected its rows, and what a creation had written  *)
(* when a fault struck it.                                                 *)
PurgedIsGone ==
  \A a \in files : conv[a] \in convs \/ a \in late \cup hurt

(* Only what has expired, or is in a conversation that was purged, is      *)
(* reported missing.                                                       *)
OnlyExpiredMissing ==
  \A a \in missing : a \in expired \/ at[conv[a]] \in {"purging", "done"}
=============================================================================
