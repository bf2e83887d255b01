-------------------------------- MODULE Vault --------------------------------
(***************************************************************************)
(* One person's stored documents and photos: encrypted bytes in an object  *)
(* store, a secure_object row with its vault_document or avatar_asset row  *)
(* in Postgres, and the ledger of deletions that an hourly cron carries to *)
(* the store.  Neither an upload, a deletion nor an erase is one           *)
(* transaction: a request may die between any two of its steps, and a call *)
(* that fails, or whose answer is lost, ends it like a death.              *)
(***************************************************************************)
EXTENDS Naturals, FiniteSets

CONSTANTS
    Keys,       \* object keys; every upload mints a new one
    Workers,    \* requests in flight
    Crons,      \* runs of the deletion cron
    Limit,      \* tasks one run takes up
    Stuck,      \* tasks of the ledger that always fail (a malformed target)
    MaxTasks,   \* rows of the ledger
    MaxFaults   \* deaths, failed and lost calls

ASSUME VaultBoundsAssumption ==
    {Limit, Stuck, MaxTasks, MaxFaults} \subseteq Nat /\ Stuck <= MaxTasks
ASSUME VaultKeysAssumption == "malformed" \notin Keys

VARIABLES
    bytes,        \* keys the object store holds
    row,          \* what Postgres says of each key
    account,      \* the users row exists
    task,         \* deletion_task, by id
    req,          \* the requests in flight
    cron,         \* each run of the cron: the tasks to take up, and the one to mark
    missed,       \* keys an erase dropped that neither it nor anyone had filed
    interrupted,  \* keys whose deletion died between its task and its row
    faults

vars == <<bytes, row, account, task, req, cron, missed, interrupted, faults>>

Ids == 1..MaxTasks
NoTask == [key |-> "malformed", is |-> "none"]
Task == [key : Keys \cup {"malformed"}, is : {"none", "pending", "done"}]

(* A request: its next step, the keys it is about, and those of them not   *)
(* yet in the ledger.                                                      *)
Idle == [at |-> "idle", keys |-> {}, left |-> {}, account |-> FALSE]
Stages == {"idle", "insert", "index", "enqueue", "drop", "eraseEnqueue", "eraseDrop", "eraseAccount"}
Request == [at : Stages, keys : SUBSET Keys, left : SUBSET Keys, account : BOOLEAN]

Run == [left : SUBSET Ids, marks : SUBSET Ids]
NoRun == [left |-> {}, marks |-> {}]

Init ==
    /\ bytes = {} /\ account = TRUE
    /\ row = [k \in Keys |-> "free"]
    /\ task = [i \in Ids |-> IF i <= Stuck THEN [NoTask EXCEPT !.is = "pending"] ELSE NoTask]
    /\ req = [w \in Workers |-> Idle] /\ cron = [c \in Crons |-> NoRun]
    /\ missed = {} /\ interrupted = {} /\ faults = 0

(* A secure_object row exists; its metadata row may still be missing.      *)
Recorded == {k \in Keys : row[k] \in {"object", "document"}}
Filed == {task[i].key : i \in Ids}
Pending == {i \in Ids : task[i].is = "pending"}

At(w, stage) == req[w].at = stage
Goes(w, stage) == req' = [req EXCEPT ![w].at = stage]
Ends(w) == req' = [req EXCEPT ![w] = Idle]
Begins(w, r) == req[w] = Idle /\ req' = [req EXCEPT ![w] = r]
Gone(ks) == row' = [k \in Keys |-> IF k \in ks THEN "gone" ELSE row[k]]

-----------------------------------------------------------------------------
(* An upload: the bytes, then the secure_object row, then what the person  *)
(* sees of it.                                                             *)

(* The session's check and the put, one step: an account that ends between *)
(* them is as one that ends right after, before the row.                   *)
UploadPuts(w, k) ==
    /\ account /\ row[k] = "free"
    /\ Begins(w, [Idle EXCEPT !.at = "insert", !.keys = {k}])
    /\ bytes' = bytes \cup {k} /\ row' = [row EXCEPT ![k] = "minted"]
    /\ UNCHANGED <<account, task, cron, missed, interrupted, faults>>

(* The owner's foreign key refuses a row for an account that is gone.      *)
UploadInserts(w) ==
    /\ At(w, "insert")
    /\ \/ /\ account
          /\ row' = [k \in Keys |-> IF k \in req[w].keys THEN "object" ELSE row[k]]
          /\ Goes(w, "index")
       \/ ~account /\ Ends(w) /\ UNCHANGED row
    /\ UNCHANGED <<bytes, account, task, cron, missed, interrupted, faults>>

UploadIndexes(w) ==
    /\ At(w, "index")
    /\ row' = [k \in Keys |-> IF k \in req[w].keys /\ row[k] = "object" THEN "document" ELSE row[k]]
    /\ Ends(w)
    /\ UNCHANGED <<bytes, account, task, cron, missed, interrupted, faults>>

-----------------------------------------------------------------------------
(* Deletions.                                                              *)

NextId(i) == task[i].is = "none" /\ \A j \in Ids : j < i => task[j].is # "none"

(* enqueueDeletion.                                                        *)
Enqueued(k) ==
    \E i \in Ids : NextId(i) /\ task' = [task EXCEPT ![i] = [key |-> k, is |-> "pending"]]

(* deleteVaultDocument and deleteAvatarAsset.                              *)
DeleteLooks(w, k) ==
    /\ row[k] = "document"
    /\ Begins(w, [Idle EXCEPT !.at = "enqueue", !.keys = {k}])
    /\ UNCHANGED <<bytes, row, account, task, cron, missed, interrupted, faults>>

DeleteEnqueues(w) ==
    /\ At(w, "enqueue")
    /\ \E k \in req[w].keys : Enqueued(k)
    /\ Goes(w, "drop")
    /\ UNCHANGED <<bytes, row, account, cron, missed, interrupted, faults>>

(* Mutated form: only the metadata row is deleted.                         *)
DeleteDropsIndex(w) ==
    /\ At(w, "drop")
    /\ row' = [k \in Keys |-> IF k \in req[w].keys \cap Recorded THEN "object" ELSE row[k]]
    /\ Ends(w)
    /\ UNCHANGED <<bytes, account, task, cron, missed, interrupted, faults>>

(* The secure_object row goes and takes the metadata row with it.          *)
DeleteDrops(w) ==
    /\ At(w, "drop") /\ Gone(req[w].keys) /\ Ends(w)
    /\ UNCHANGED <<bytes, account, task, cron, missed, interrupted, faults>>

(* The erase of a person's data: everything listed goes into the ledger,   *)
(* then every row goes, listed or not.                                     *)
EraseLists(w, withAccount) ==
    /\ account
    /\ Begins(w, [at |-> "eraseEnqueue", keys |-> Recorded, left |-> Recorded,
                  account |-> withAccount])
    /\ UNCHANGED <<bytes, row, account, task, cron, missed, interrupted, faults>>

(* Mutated form: the loop over the listed objects ends after its first.    *)
EraseEnqueuesOne(w) ==
    /\ At(w, "eraseEnqueue")
    /\ \/ \E k \in req[w].left : Enqueued(k) /\ req' = [req EXCEPT ![w].left = {}]
       \/ req[w].left = {} /\ Goes(w, "eraseDrop") /\ UNCHANGED task
    /\ UNCHANGED <<bytes, row, account, cron, missed, interrupted, faults>>

EraseEnqueues(w) ==
    /\ At(w, "eraseEnqueue")
    /\ \/ \E k \in req[w].left : Enqueued(k) /\ req' = [req EXCEPT ![w].left = @ \ {k}]
       \/ req[w].left = {} /\ Goes(w, "eraseDrop") /\ UNCHANGED task
    /\ UNCHANGED <<bytes, row, account, cron, missed, interrupted, faults>>

EraseDrops(w) ==
    /\ At(w, "eraseDrop")
    /\ Gone(Recorded) /\ missed' = missed \cup (Recorded \ (req[w].keys \cup Filed))
    /\ \/ req[w].account /\ Goes(w, "eraseAccount")
       \/ ~req[w].account /\ Ends(w)
    /\ UNCHANGED <<bytes, account, task, cron, interrupted, faults>>

(* Much later in the same request, the users row, which cascades.          *)
EraseEndsAccount(w) ==
    /\ At(w, "eraseAccount")
    /\ account' = FALSE
    /\ Gone(Recorded) /\ missed' = missed \cup (Recorded \ (req[w].keys \cup Filed))
    /\ Ends(w)
    /\ UNCHANGED <<bytes, task, cron, interrupted, faults>>

Faulty == faults < MaxFaults /\ faults' = faults + 1

(* What has its task but still has its row.                                *)
HalfDeleted(w) ==
    {k \in req[w].keys \ req[w].left : req[w].at \in {"drop", "eraseEnqueue", "eraseDrop"}}

Dies(w) ==
    /\ req[w] # Idle /\ Faulty
    /\ interrupted' = interrupted \cup HalfDeleted(w)
    /\ Ends(w)
    /\ UNCHANGED <<bytes, row, account, task, cron, missed>>

-----------------------------------------------------------------------------
(* runDeletionTasks.                                                       *)

(* Mutated form: one task fewer than the limit.                            *)
OldestButOne == {i \in Pending : Cardinality({j \in Pending : j < i}) + 1 < Limit}

(* The oldest pending tasks, up to the limit.                              *)
Oldest == {i \in Pending : Cardinality({j \in Pending : j < i}) < Limit}

CronReads(c) ==
    /\ cron[c] = NoRun /\ cron' = [cron EXCEPT ![c].left = Oldest]
    /\ UNCHANGED <<bytes, row, account, task, req, missed, interrupted, faults>>

(* One after the other, the oldest first.                                  *)
TakesUp(c, i) ==
    /\ i \in cron[c].left /\ \A j \in cron[c].left : i <= j
    /\ cron[c].marks = {}

(* DeleteObjectCommand: deleting what is gone is no error.                 *)
CronDeletes(c, i) ==
    /\ TakesUp(c, i) /\ task[i].key \in Keys
    /\ bytes' = bytes \ {task[i].key}
    /\ cron' = [cron EXCEPT ![c] = [left |-> @.left \ {i}, marks |-> {i}]]
    /\ UNCHANGED <<row, account, task, req, missed, interrupted, faults>>

CronMarks(c, i) ==
    /\ i \in cron[c].marks
    /\ task' = [task EXCEPT ![i].is = "done"]
    /\ cron' = [cron EXCEPT ![c].marks = {}]
    /\ UNCHANGED <<bytes, row, account, req, missed, interrupted, faults>>

(* Mutated form: a task that fails is given up.                            *)
CronGivesUp(c, i) ==
    /\ TakesUp(c, i) /\ task' = [task EXCEPT ![i].is = "failed"]
    /\ cron' = [cron EXCEPT ![c].left = @ \ {i}]
    /\ \/ task[i].key \notin Keys /\ UNCHANGED faults
       \/ task[i].key \in Keys /\ Faulty
    /\ UNCHANGED <<bytes, row, account, req, missed, interrupted>>

(* Mutated form: a task that fails is marked done.                         *)
CronMarksAnyway(c, i) ==
    /\ TakesUp(c, i) /\ task' = [task EXCEPT ![i].is = "done"]
    /\ cron' = [cron EXCEPT ![c].left = @ \ {i}]
    /\ \/ task[i].key \notin Keys /\ UNCHANGED faults
       \/ task[i].key \in Keys /\ Faulty
    /\ UNCHANGED <<bytes, row, account, req, missed, interrupted>>

(* A task that fails, at the store or after it, stays pending and the run  *)
(* goes on with the next.                                                  *)
CronFails(c, i) ==
    /\ \/ TakesUp(c, i) /\ task[i].key \notin Keys /\ UNCHANGED faults
       \/ TakesUp(c, i) /\ task[i].key \in Keys /\ Faulty
       \/ i \in cron[c].marks /\ Faulty
    /\ cron' = [cron EXCEPT ![c] = [left |-> @.left \ {i}, marks |-> {}]]
    /\ UNCHANGED <<bytes, row, account, task, req, missed, interrupted>>

(* The run ends with tasks not taken up: its time is over, or the update   *)
(* in the catch block failed as well.                                      *)
CronDies(c) ==
    /\ cron[c] # NoRun /\ Faulty /\ cron' = [cron EXCEPT ![c] = NoRun]
    /\ UNCHANGED <<bytes, row, account, task, req, missed, interrupted>>

-----------------------------------------------------------------------------
Requests(w) ==
    \/ \E k \in Keys : UploadPuts(w, k) \/ DeleteLooks(w, k)
    \/ UploadInserts(w) \/ UploadIndexes(w)
    \/ DeleteEnqueues(w) \/ DeleteDrops(w)
    \/ \E b \in BOOLEAN : EraseLists(w, b)
    \/ EraseEnqueues(w) \/ EraseDrops(w) \/ EraseEndsAccount(w)
    \/ Dies(w)

CronStep(c) ==
    \/ CronReads(c)
    \/ \E i \in Ids : CronDeletes(c, i) \/ CronMarks(c, i) \/ CronFails(c, i)

Next ==
    \/ \E w \in Workers : Requests(w)
    \/ \E c \in Crons : CronStep(c) \/ CronDies(c)

Spec == Init /\ [][Next]_vars

(* The cron runs every hour (vercel.json) and works through what it took.  *)
(* No request is promised to go on.                                        *)
FairSpec == Spec /\ \A c \in Crons : WF_vars(CronStep(c))

-----------------------------------------------------------------------------
TypeOK ==
    /\ bytes \subseteq Keys /\ account \in BOOLEAN
    /\ row \in [Keys -> {"free", "minted", "object", "document", "gone"}]
    /\ task \in [Ids -> Task] /\ req \in [Workers -> Request]
    /\ cron \in [Crons -> Run]
    /\ missed \subseteq Keys /\ interrupted \subseteq Keys
    /\ faults \in 0..MaxFaults

(* "a crash mid-delete never orphans an R2 object" (vaultDocument.ts:13):  *)
(* bytes whose row a deletion or an erase has dropped have a pending task, *)
(* whatever overlaps and dies; except the bytes of an upload that recorded *)
(* itself after the erase had listed what to delete, and that nobody else  *)
(* had filed by then.                                                      *)
NothingForgotten ==
    \A k \in bytes : row[k] = "gone" => k \in missed \/ \E i \in Pending : task[i].key = k

(* A task marked done is a deletion that happened, and nothing brings the  *)
(* bytes back: not an overlapping run, not an upload still going on.       *)
DoneMeansGone == \A i \in Ids : task[i].is = "done" => task[i].key \notin bytes

(* "so metadata never survives its bytes" (vaultDocument.ts:167): a        *)
(* document without bytes is one whose deletion is between its two steps,  *)
(* or died there; no other document ever loses them.                       *)
MetadataGoesWithBytes ==
    \A k \in Recorded \ bytes : k \in interrupted \/ \E w \in Workers : k \in HalfDeleted(w)

(* What was deleted leaves the store in the end, as long as fewer tasks    *)
(* than a run takes up always fail ("until it succeeds", 037:36).          *)
DeletedGoesAway == \A k \in Keys : (row[k] = "gone" /\ k \notin missed) ~> (k \notin bytes)
=============================================================================
