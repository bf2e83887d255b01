---------------------------- MODULE VaultProofs ----------------------------
(***************************************************************************)
(* Proofs about Vault, for any keys, requests and runs of the cron.  The   *)
(* argument: a key is minted once, so a row only moves forward (free,      *)
(* minted, recorded, gone); no task names a key before it is recorded, so  *)
(* no task can meet bytes that are still to come; and a request that drops *)
(* a row holds keys the ledger already has.                                *)
(***************************************************************************)
EXTENDS Vault, TLAPS

(* Rows that were recorded at some time.                                   *)
Past == {"object", "document", "gone"}

HasTask(k) == \E i \in Ids : task[i].key = k

(* What the ledger says: only of keys recorded, and "done" means gone.     *)
Ledger ==
    \A i \in Ids :
        /\ task[i].is = "none" => task[i].key = "malformed"
        /\ task[i].key \in Keys => row[task[i].key] \in Past
        /\ task[i].is = "done" => task[i].key \notin bytes

(* What a run has read or deleted.                                         *)
Taken ==
    \A c \in Crons, i \in Ids :
        /\ i \in cron[c].left \cup cron[c].marks => task[i].is # "none"
        /\ i \in cron[c].marks => task[i].key \notin bytes

(* What a request knows of its keys at each of its stages.                 *)
Held(w) ==
    /\ At(w, "insert") => \A k \in req[w].keys : row[k] = "minted"
    /\ At(w, "enqueue") => /\ req[w].left = {}
                           /\ \A k \in req[w].keys : row[k] \in Past
                           /\ \A j, k \in req[w].keys : j = k
    /\ At(w, "drop") => \A k \in req[w].keys : HasTask(k)
    /\ At(w, "eraseEnqueue") => /\ \A k \in req[w].keys : row[k] \in Past
                                /\ \A k \in req[w].keys \ req[w].left : HasTask(k)
                                /\ req[w].left \subseteq req[w].keys
    /\ At(w, "eraseDrop") \/ At(w, "eraseAccount") => \A k \in req[w].keys : HasTask(k)

(* No two uploads mint one key.                                            *)
OwnKeys ==
    \A v, w \in Workers : At(v, "insert") /\ At(w, "insert") /\ v # w
                            => req[v].keys \cap req[w].keys = {}

(* What the ledger must know of each key.                                  *)
Known(k) ==
    /\ row[k] = "gone" => k \in missed \/ HasTask(k)
    /\ row[k] \in {"minted", "object", "document"} /\ k \notin bytes => HasTask(k)
    /\ row[k] \in {"object", "document"} /\ HasTask(k)
         => k \in interrupted \/ \E w \in Workers : k \in HalfDeleted(w)

IInv ==
    /\ TypeOK /\ Ledger /\ Taken /\ OwnKeys
    /\ \A w \in Workers : Held(w)
    /\ \A k \in Keys : Known(k)

-----------------------------------------------------------------------------
LEMMA InitHolds == Init => IInv
<1> SUFFICES ASSUME Init PROVE IInv
  OBVIOUS
<1> USE VaultBoundsAssumption, VaultKeysAssumption DEF Init
<1>1. TypeOK
  BY DEF TypeOK, Task, NoTask, Request, Stages, Idle, Run, NoRun, Ids
<1>2. \A i \in Ids : task[i].key = "malformed" /\ task[i].is \in {"none", "pending"}
  BY DEF NoTask
<1>3. Ledger
  BY <1>2 DEF Ledger
<1>4. Taken
  BY DEF Taken, NoRun
<1>5. OwnKeys /\ \A w \in Workers : Held(w)
  BY DEF OwnKeys, Held, At, Idle
<1>6. \A k \in Keys : Known(k)
  BY DEF Known
<1> QED BY <1>1, <1>3, <1>4, <1>5, <1>6 DEF IInv

(* A request keeps what it knows when only others act.                     *)
LEMMA StillHeld ==
  ASSUME NEW v \in Workers, TypeOK, Held(v), req'[v] = req[v],
         \A k \in Keys : row[k] \in Past => row'[k] \in Past,
         \A k \in Keys : HasTask(k) => HasTask(k)',
         At(v, "insert") => \A k \in req[v].keys : row'[k] = row[k]
  PROVE  Held(v)'
<1>1. req[v].keys \subseteq Keys
  BY DEF TypeOK, Request
<1> QED BY <1>1 DEF Held, At

(* A step of one request that leaves the store, the ledger and the rows    *)
(* alone.                                                                  *)
LEMMA RequestStep ==
  ASSUME IInv, TypeOK', NEW w \in Workers,
         \A v \in Workers \ {w} : req'[v] = req[v],
         bytes' = bytes, row' = row, task' = task, cron' = cron, missed' = missed,
         Held(w)', ~At(w, "insert")', interrupted \subseteq interrupted',
         \A k \in Keys : k \in HalfDeleted(w) => k \in interrupted' \/ k \in HalfDeleted(w)'
  PROVE  IInv'
<1> USE DEF IInv
<1>1. Ledger' /\ Taken'
  BY DEF Ledger, Taken
<1>2. OwnKeys'
  <2> SUFFICES ASSUME NEW u \in Workers, NEW v \in Workers, u # v,
                      At(u, "insert")', At(v, "insert")'
               PROVE  req'[u].keys \cap req'[v].keys = {}
    BY DEF OwnKeys, At
  <2>1. u # w /\ v # w
    OBVIOUS
  <2> QED BY <2>1 DEF OwnKeys, At
<1>3. \A k \in Keys : HasTask(k) <=> HasTask(k)'
  BY DEF HasTask
<1>4. ASSUME NEW v \in Workers PROVE Held(v)'
  <2>1. CASE v = w
    BY <2>1
  <2>2. CASE v # w
    BY <2>2, <1>3, StillHeld
  <2> QED BY <2>1, <2>2
<1>5. ASSUME NEW k \in Keys PROVE Known(k)'
  <2>1. \A v \in Workers \ {w} : k \in HalfDeleted(v) => k \in HalfDeleted(v)'
    BY DEF HalfDeleted
  <2>2. Known(k)
    OBVIOUS
  <2>3. (\E v \in Workers : k \in HalfDeleted(v))
          => k \in interrupted' \/ \E v \in Workers : k \in HalfDeleted(v)'
    BY <2>1
  <2> QED BY <1>3, <2>2, <2>3 DEF Known
<1> QED BY <1>1, <1>2, <1>4, <1>5

LEMMA UploadPutsKeeps ==
  ASSUME IInv, NEW w \in Workers, NEW k \in Keys, UploadPuts(w, k) PROVE IInv'
<1> USE DEF IInv
<1>1. req[w] = Idle /\ req' = [req EXCEPT ![w] = [Idle EXCEPT !.at = "insert", !.keys = {k}]]
  BY DEF UploadPuts, Begins
<1>2. /\ row[k] = "free" /\ row' = [row EXCEPT ![k] = "minted"]
      /\ bytes' = bytes \cup {k} /\ task' = task /\ cron' = cron /\ missed' = missed
      /\ account' = account /\ interrupted' = interrupted /\ faults' = faults
  BY DEF UploadPuts
<1>3. /\ req'[w] = [at |-> "insert", keys |-> {k}, left |-> {}, account |-> FALSE]
      /\ \A v \in Workers \ {w} : req'[v] = req[v]
  BY <1>1 DEF TypeOK, Idle
<1>4. /\ row'[k] = "minted" /\ \A j \in Keys \ {k} : row'[j] = row[j]
      /\ row' \in [Keys -> {"free", "minted", "object", "document", "gone"}]
  BY <1>2 DEF TypeOK
<1>5. TypeOK'
  <2>1. [at |-> "insert", keys |-> {k}, left |-> {}, account |-> FALSE] \in Request
    BY DEF Request, Stages
  <2>2. req' \in [Workers -> Request]
    BY <1>1, <1>3, <2>1 DEF TypeOK, Idle
  <2> QED BY <1>2, <1>4, <2>2 DEF TypeOK
<1>6. \A i \in Ids : task[i].key # k
  BY <1>2 DEF Ledger, Past
<1>7. Ledger'
  BY <1>2, <1>4, <1>6 DEF Ledger, Past
<1>8. Taken'
  BY <1>2, <1>6 DEF Taken
<1>9. \A j \in Keys : HasTask(j) <=> HasTask(j)'
  BY <1>2 DEF HasTask
<1>10. ASSUME NEW v \in Workers PROVE Held(v)'
  <2>1. CASE v = w
    BY <2>1, <1>3, <1>4 DEF Held, At
  <2>2. CASE v # w
    <3>1. At(v, "insert") => \A j \in req[v].keys : row'[j] = row[j]
      BY <1>2, <1>4 DEF Held, TypeOK, Request
    <3>2. \A j \in Keys : row[j] \in Past => row'[j] \in Past
      BY <1>2, <1>4 DEF Past
    <3> QED BY <2>2, <3>1, <3>2, <1>3, <1>9, StillHeld
  <2> QED BY <2>1, <2>2
<1>11. OwnKeys'
  <2>1. \A v \in Workers : At(v, "insert") => k \notin req[v].keys
    BY <1>2 DEF Held
  <2> QED BY <2>1, <1>3 DEF OwnKeys, At
<1>12. ASSUME NEW j \in Keys PROVE Known(j)'
  <2>1. CASE j = k
    BY <2>1, <1>2, <1>4 DEF Known
  <2>2. CASE j # k
    <3>1. \A v \in Workers : j \in HalfDeleted(v) => j \in HalfDeleted(v)'
      BY <1>1, <1>3 DEF HalfDeleted, Idle
    <3>2. Known(j)
      OBVIOUS
    <3> QED BY <2>2, <3>1, <3>2, <1>2, <1>4, <1>9 DEF Known
  <2> QED BY <2>1, <2>2
<1> QED BY <1>5, <1>7, <1>8, <1>10, <1>11, <1>12

(* What rows a request may turn: from minted to recorded, or to gone when  *)
(* the ledger knows the key or an erase had not listed it.                 *)
LEMMA RowStep ==
  ASSUME IInv, TypeOK', NEW w \in Workers,
         \A v \in Workers \ {w} : req'[v] = req[v],
         bytes' = bytes, task' = task, cron' = cron, interrupted' = interrupted,
         missed \subseteq missed',
         Held(w)', ~At(w, "insert")',
         \A k \in Keys : row[k] \in Past => row'[k] \in Past,
         \A k \in Keys : row[k] \in {"minted", "object", "document"}
                           \/ row'[k] \notin {"minted", "object", "document"},
         \A k \in Keys : row[k] # "gone" /\ row'[k] = "gone" => k \in missed' \/ HasTask(k),
         \A k \in Keys : row'[k] \in {"object", "document"} /\ HasTask(k)
                           => row[k] \in {"object", "document"},
         \A v \in Workers \ {w} : At(v, "insert") => \A k \in req[v].keys : row'[k] = row[k],
         \A k \in Keys : k \in HalfDeleted(w)
                           => k \in HalfDeleted(w)' \/ row'[k] \notin {"object", "document"}
  PROVE  IInv'
<1> USE DEF IInv
<1>1. Ledger' /\ Taken'
  BY DEF Ledger, Taken
<1>2. OwnKeys'
  <2> SUFFICES ASSUME NEW u \in Workers, NEW v \in Workers, u # v,
                      At(u, "insert")', At(v, "insert")'
               PROVE  req'[u].keys \cap req'[v].keys = {}
    BY DEF OwnKeys, At
  <2>1. u # w /\ v # w
    OBVIOUS
  <2> QED BY <2>1 DEF OwnKeys, At
<1>3. \A k \in Keys : HasTask(k) <=> HasTask(k)'
  BY DEF HasTask
<1>4. ASSUME NEW v \in Workers PROVE Held(v)'
  <2>1. CASE v = w
    BY <2>1
  <2>2. CASE v # w
    BY <2>2, <1>3, StillHeld
  <2> QED BY <2>1, <2>2
<1>5. ASSUME NEW k \in Keys PROVE Known(k)'
  <2>1. \A v \in Workers \ {w} : k \in HalfDeleted(v) => k \in HalfDeleted(v)'
    BY DEF HalfDeleted
  <2>2. Known(k) /\ row[k] \in {"free", "minted", "object", "document", "gone"}
    BY DEF TypeOK
  <2>3. row'[k] = "gone" => k \in missed' \/ HasTask(k)'
    BY <1>3, <2>2 DEF Known
  <2>4. row'[k] \in {"minted", "object", "document"} /\ k \notin bytes' => HasTask(k)'
    BY <1>3, <2>2 DEF Known
  <2>5. row'[k] \in {"object", "document"} /\ HasTask(k)'
          => k \in interrupted' \/ \E v \in Workers : k \in HalfDeleted(v)'
    BY <1>3, <2>1, <2>2 DEF Known
  <2> QED BY <2>3, <2>4, <2>5 DEF Known
<1> QED BY <1>1, <1>2, <1>4, <1>5

-----------------------------------------------------------------------------
LEMMA UploadInsertsKeeps == ASSUME IInv, NEW w \in Workers, UploadInserts(w) PROVE IInv'
<1> USE DEF IInv
<1>1. At(w, "insert") /\ req[w] \in Request /\ req[w].keys \subseteq Keys
  BY DEF UploadInserts, TypeOK, Request
<1>2. /\ bytes' = bytes /\ task' = task /\ cron' = cron /\ interrupted' = interrupted
      /\ missed' = missed /\ account' = account /\ faults' = faults
  BY DEF UploadInserts
<1>3. \A k \in req[w].keys : row[k] = "minted" /\ ~HasTask(k)
  BY <1>1 DEF Held, Ledger, HasTask, Past
<1>4. /\ req'[w].at \in {"idle", "index"}
      /\ \A v \in Workers \ {w} : req'[v] = req[v]
  BY <1>1 DEF UploadInserts, Goes, Ends, TypeOK, Idle, Request
<1>5. req' \in [Workers -> Request]
  <2>1. Idle \in Request /\ [req[w] EXCEPT !.at = "index"] \in Request
    BY <1>1 DEF Idle, Request, Stages
  <2>2. req' = [req EXCEPT ![w] = Idle] \/ req' = [req EXCEPT ![w] = [req[w] EXCEPT !.at = "index"]]
    BY DEF UploadInserts, Goes, Ends
  <2> QED BY <2>1, <2>2 DEF TypeOK
<1>6. /\ \A k \in Keys \ req[w].keys : row'[k] = row[k]
      /\ \A k \in req[w].keys : row'[k] = row[k] \/ row'[k] = "object"
      /\ row' \in [Keys -> {"free", "minted", "object", "document", "gone"}]
  BY <1>1 DEF UploadInserts, TypeOK
<1>7. TypeOK'
  BY <1>2, <1>5, <1>6 DEF TypeOK
<1>8. Held(w)' /\ ~At(w, "insert")' /\ \A k \in Keys : k \notin HalfDeleted(w)
  BY <1>1, <1>4 DEF Held, At, HalfDeleted
<1>9. \A v \in Workers \ {w} : At(v, "insert") => \A k \in req[v].keys : row'[k] = row[k]
  BY <1>1, <1>6 DEF OwnKeys, TypeOK, Request
<1>10. \A k \in Keys : row[k] \in Past => row'[k] \in Past
  BY <1>3, <1>6 DEF Past
<1>11. \A k \in Keys : row[k] \in {"minted", "object", "document"}
                         \/ row'[k] \notin {"minted", "object", "document"}
  BY <1>3, <1>6
<1>12. \A k \in Keys : row[k] # "gone" /\ row'[k] = "gone" => FALSE
  BY <1>3, <1>6
<1>13. \A k \in Keys : row'[k] \in {"object", "document"} /\ HasTask(k)
                         => row[k] \in {"object", "document"}
  BY <1>3, <1>6
<1> HIDE DEF IInv
<1> QED BY <1>2, <1>4, <1>7, <1>8, <1>9, <1>10, <1>11, <1>12, <1>13, RowStep

LEMMA UploadIndexesKeeps == ASSUME IInv, NEW w \in Workers, UploadIndexes(w) PROVE IInv'
<1> USE DEF IInv
<1>1. At(w, "index") /\ req' = [req EXCEPT ![w] = Idle]
  BY DEF UploadIndexes, Ends
<1>2. /\ bytes' = bytes /\ task' = task /\ cron' = cron /\ interrupted' = interrupted
      /\ missed' = missed /\ account' = account /\ faults' = faults
  BY DEF UploadIndexes
<1>3. /\ req'[w] = Idle /\ \A v \in Workers \ {w} : req'[v] = req[v]
      /\ req' \in [Workers -> Request]
  BY <1>1 DEF TypeOK, Idle, Request, Stages
<1>4. /\ \A k \in Keys : row'[k] = row[k] \/ (row[k] = "object" /\ row'[k] = "document")
      /\ row' \in [Keys -> {"free", "minted", "object", "document", "gone"}]
  BY DEF UploadIndexes, TypeOK
<1>5. TypeOK'
  BY <1>2, <1>3, <1>4 DEF TypeOK
<1>6. Held(w)' /\ ~At(w, "insert")' /\ \A k \in Keys : k \notin HalfDeleted(w)
  BY <1>1, <1>3 DEF Held, At, HalfDeleted, Idle
<1>7. \A v \in Workers : At(v, "insert") => \A k \in req[v].keys : row'[k] = row[k]
  BY <1>4 DEF Held, TypeOK, Request
<1>8. /\ \A k \in Keys : row[k] \in Past => row'[k] \in Past
      /\ \A k \in Keys : row[k] \in {"minted", "object", "document"}
                           \/ row'[k] \notin {"minted", "object", "document"}
      /\ \A k \in Keys : row[k] # "gone" /\ row'[k] = "gone" => FALSE
      /\ \A k \in Keys : row'[k] \in {"object", "document"} => row[k] \in {"object", "document"}
  BY <1>4 DEF Past
<1> HIDE DEF IInv
<1> QED BY <1>2, <1>3, <1>5, <1>6, <1>7, <1>8, RowStep

LEMMA DeleteLooksKeeps ==
  ASSUME IInv, NEW w \in Workers, NEW k \in Keys, DeleteLooks(w, k) PROVE IInv'
<1> USE DEF IInv
<1>1. req[w] = Idle /\ row[k] = "document"
  BY DEF DeleteLooks, Begins
<1>2. /\ req'[w] = [at |-> "enqueue", keys |-> {k}, left |-> {}, account |-> FALSE]
      /\ \A v \in Workers \ {w} : req'[v] = req[v]
  BY DEF DeleteLooks, Begins, TypeOK, Idle
<1>3. [at |-> "enqueue", keys |-> {k}, left |-> {}, account |-> FALSE] \in Request
  BY DEF Request, Stages
<1>4. req' \in [Workers -> Request]
  BY <1>3 DEF DeleteLooks, Begins, TypeOK, Idle
<1>5. /\ bytes' = bytes /\ row' = row /\ task' = task /\ cron' = cron /\ missed' = missed
      /\ interrupted' = interrupted /\ account' = account /\ faults' = faults
  BY DEF DeleteLooks
<1>6. TypeOK'
  BY <1>4, <1>5 DEF TypeOK
<1>7. Held(w)' /\ ~At(w, "insert")'
  BY <1>1, <1>2, <1>5 DEF Held, At, Past
<1>8. \A j \in Keys : j \notin HalfDeleted(w)
  BY <1>1 DEF HalfDeleted, Idle
<1> HIDE DEF IInv
<1> QED BY <1>2, <1>5, <1>6, <1>7, <1>8, RequestStep

LEMMA DeleteDropsKeeps == ASSUME IInv, NEW w \in Workers, DeleteDrops(w) PROVE IInv'
<1> USE DEF IInv
<1>1. At(w, "drop") /\ req' = [req EXCEPT ![w] = Idle] /\ req[w].keys \subseteq Keys
  BY DEF DeleteDrops, Ends, TypeOK, Request
<1>2. /\ bytes' = bytes /\ task' = task /\ cron' = cron /\ interrupted' = interrupted
      /\ missed' = missed /\ account' = account /\ faults' = faults
  BY DEF DeleteDrops
<1>3. /\ req'[w] = Idle /\ \A v \in Workers \ {w} : req'[v] = req[v]
      /\ req' \in [Workers -> Request]
  BY <1>1 DEF TypeOK, Idle, Request, Stages
<1>4. \A k \in req[w].keys : HasTask(k) /\ row[k] \in Past
  BY <1>1 DEF Held, HasTask, Ledger
<1>5. /\ \A k \in Keys \ req[w].keys : row'[k] = row[k]
      /\ \A k \in req[w].keys : row'[k] = "gone"
      /\ row' \in [Keys -> {"free", "minted", "object", "document", "gone"}]
  BY <1>1 DEF DeleteDrops, Gone, TypeOK
<1>6. TypeOK'
  BY <1>2, <1>3, <1>5 DEF TypeOK
<1>7. Held(w)' /\ ~At(w, "insert")'
  BY <1>3 DEF Held, At, Idle
<1>8. \A k \in Keys : k \in HalfDeleted(w) => row'[k] = "gone"
  BY <1>5 DEF HalfDeleted
<1>9. \A v \in Workers : At(v, "insert") => \A k \in req[v].keys : row'[k] = row[k]
  BY <1>4, <1>5 DEF Held, TypeOK, Request, Past
<1>10. /\ \A k \in Keys : row[k] \in Past => row'[k] \in Past
       /\ \A k \in Keys : row[k] \in {"minted", "object", "document"}
                            \/ row'[k] \notin {"minted", "object", "document"}
       /\ \A k \in Keys : row[k] # "gone" /\ row'[k] = "gone" => HasTask(k)
       /\ \A k \in Keys : row'[k] \in {"object", "document"} => row[k] \in {"object", "document"}
  BY <1>4, <1>5 DEF Past
<1> HIDE DEF IInv
<1> QED BY <1>2, <1>3, <1>6, <1>7, <1>8, <1>9, <1>10, RowStep

LEMMA EraseListsKeeps ==
  ASSUME IInv, NEW w \in Workers, NEW b \in BOOLEAN, EraseLists(w, b) PROVE IInv'
<1> USE DEF IInv
<1>1. req[w] = Idle
  BY DEF EraseLists, Begins
<1>2. /\ req'[w] = [at |-> "eraseEnqueue", keys |-> Recorded, left |-> Recorded, account |-> b]
      /\ \A v \in Workers \ {w} : req'[v] = req[v]
  BY DEF EraseLists, Begins, TypeOK
<1>3. Recorded \subseteq Keys /\ \A k \in Recorded : row[k] \in Past
  BY DEF Recorded, Past
<1>4. [at |-> "eraseEnqueue", keys |-> Recorded, left |-> Recorded, account |-> b] \in Request
  BY <1>3 DEF Request, Stages
<1>5. req' \in [Workers -> Request]
  BY <1>4 DEF EraseLists, Begins, TypeOK
<1>6. /\ bytes' = bytes /\ row' = row /\ task' = task /\ cron' = cron /\ missed' = missed
      /\ interrupted' = interrupted /\ account' = account /\ faults' = faults
  BY DEF EraseLists
<1>7. TypeOK'
  BY <1>5, <1>6 DEF TypeOK
<1>8. Held(w)' /\ ~At(w, "insert")'
  BY <1>2, <1>3, <1>6 DEF Held, At
<1>9. \A j \in Keys : j \notin HalfDeleted(w)
  BY <1>1 DEF HalfDeleted, Idle
<1> HIDE DEF IInv
<1> QED BY <1>2, <1>6, <1>7, <1>8, <1>9, RequestStep

(* Both deletions of rows that an erase makes: of the stored objects, and  *)
(* with the account.                                                       *)
LEMMA EraseRows ==
  ASSUME IInv, TypeOK', NEW w \in Workers,
         At(w, "eraseDrop") \/ At(w, "eraseAccount"),
         \A v \in Workers \ {w} : req'[v] = req[v],
         bytes' = bytes, task' = task, cron' = cron, interrupted' = interrupted,
         missed' = missed \cup (Recorded \ (req[w].keys \cup Filed)),
         Held(w)', ~At(w, "insert")', Gone(Recorded)
  PROVE  IInv'
<1> USE DEF IInv
<1>1. \A k \in req[w].keys : HasTask(k)
  BY DEF Held
<1>2. /\ \A k \in Keys : row[k] \in {"object", "document"} => row'[k] = "gone"
      /\ \A k \in Keys : row[k] \notin {"object", "document"} => row'[k] = row[k]
  BY DEF Gone, Recorded
<1>3. \A k \in Keys : row[k] # "gone" /\ row'[k] = "gone" => k \in missed' \/ HasTask(k)
  BY <1>1, <1>2 DEF Recorded, Filed, HasTask
<1>4. \A v \in Workers : At(v, "insert") => \A k \in req[v].keys : row'[k] = row[k]
  BY <1>2 DEF Held, TypeOK, Request
<1>5. \A k \in Keys : row'[k] \notin {"object", "document"}
  BY <1>2
<1>6. /\ \A k \in Keys : row[k] \in Past => row'[k] \in Past
      /\ \A k \in Keys : row[k] \in {"minted", "object", "document"}
                           \/ row'[k] \notin {"minted", "object", "document"}
  BY <1>2 DEF Past
<1> HIDE DEF IInv
<1> QED BY <1>3, <1>4, <1>5, <1>6, RowStep

LEMMA EraseDropsKeeps == ASSUME IInv, NEW w \in Workers, EraseDrops(w) PROVE IInv'
<1>1. At(w, "eraseDrop") /\ TypeOK /\ Held(w)
  BY DEF EraseDrops, IInv
<1>2. /\ bytes' = bytes /\ task' = task /\ cron' = cron /\ interrupted' = interrupted
      /\ account' = account /\ faults' = faults
      /\ missed' = missed \cup (Recorded \ (req[w].keys \cup Filed)) /\ Gone(Recorded)
  BY DEF EraseDrops
<1>3. /\ req'[w] = Idle \/ (req'[w].at = "eraseAccount" /\ req'[w].keys = req[w].keys)
      /\ \A v \in Workers \ {w} : req'[v] = req[v]
      /\ req' \in [Workers -> Request]
  <2>1. Idle \in Request /\ [req[w] EXCEPT !.at = "eraseAccount"] \in Request
    BY <1>1 DEF Idle, Request, Stages, TypeOK
  <2>2. \/ req' = [req EXCEPT ![w] = Idle]
        \/ req' = [req EXCEPT ![w] = [req[w] EXCEPT !.at = "eraseAccount"]]
    BY DEF EraseDrops, Goes, Ends
  <2>3. req[w] \in Request
    BY <1>1 DEF TypeOK
  <2>4. CASE req' = [req EXCEPT ![w] = Idle]
    BY <1>1, <2>1, <2>4 DEF TypeOK
  <2>5. CASE req' = [req EXCEPT ![w] = [req[w] EXCEPT !.at = "eraseAccount"]]
    <3>1. /\ [req[w] EXCEPT !.at = "eraseAccount"].at = "eraseAccount"
          /\ [req[w] EXCEPT !.at = "eraseAccount"].keys = req[w].keys
      BY <2>3 DEF Request
    <3> QED BY <1>1, <2>1, <2>5, <3>1 DEF TypeOK
  <2> QED BY <2>2, <2>4, <2>5
<1>4. TypeOK'
  BY <1>1, <1>2, <1>3 DEF TypeOK, Gone, Recorded
<1>5. \A k \in req[w].keys : HasTask(k)'
  BY <1>1, <1>2 DEF Held, HasTask
<1>6. Held(w)' /\ ~At(w, "insert")'
  BY <1>3, <1>5 DEF Held, At, Idle
<1> QED BY <1>1, <1>2, <1>3, <1>4, <1>6, EraseRows

LEMMA EraseEndsAccountKeeps == ASSUME IInv, NEW w \in Workers, EraseEndsAccount(w) PROVE IInv'
<1>1. At(w, "eraseAccount") /\ TypeOK
  BY DEF EraseEndsAccount, IInv
<1>2. /\ bytes' = bytes /\ task' = task /\ cron' = cron /\ interrupted' = interrupted
      /\ account' = FALSE /\ faults' = faults
      /\ missed' = missed \cup (Recorded \ (req[w].keys \cup Filed)) /\ Gone(Recorded)
  BY DEF EraseEndsAccount
<1>3. /\ req'[w] = Idle /\ \A v \in Workers \ {w} : req'[v] = req[v]
      /\ req' \in [Workers -> Request]
  BY <1>1 DEF EraseEndsAccount, Ends, TypeOK, Idle, Request, Stages
<1>4. TypeOK'
  BY <1>1, <1>2, <1>3 DEF TypeOK, Gone, Recorded
<1>5. Held(w)' /\ ~At(w, "insert")'
  BY <1>3 DEF Held, At, Idle
<1> QED BY <1>1, <1>2, <1>3, <1>4, <1>5, EraseRows

LEMMA DiesKeeps == ASSUME IInv, NEW w \in Workers, Dies(w) PROVE IInv'
<1>1. TypeOK /\ req' = [req EXCEPT ![w] = Idle] /\ Faulty
  BY DEF Dies, Ends, IInv
<1>2. /\ bytes' = bytes /\ row' = row /\ task' = task /\ cron' = cron /\ missed' = missed
      /\ interrupted' = interrupted \cup HalfDeleted(w) /\ account' = account
  BY DEF Dies
<1>3. /\ req'[w] = Idle /\ \A v \in Workers \ {w} : req'[v] = req[v]
      /\ req' \in [Workers -> Request]
  BY <1>1 DEF TypeOK, Idle, Request, Stages
<1>4. faults' \in 0..MaxFaults
  BY <1>1, VaultBoundsAssumption DEF Faulty, TypeOK
<1>5. HalfDeleted(w) \subseteq Keys
  BY <1>1 DEF HalfDeleted, TypeOK, Request
<1>6. TypeOK'
  BY <1>1, <1>2, <1>3, <1>4, <1>5 DEF TypeOK
<1>7. Held(w)' /\ ~At(w, "insert")'
  BY <1>3 DEF Held, At, Idle
<1> QED BY <1>2, <1>3, <1>6, <1>7, RequestStep

(* A new task for a recorded key, written by the request that will drop    *)
(* its row.                                                                *)
LEMMA EnqueueStep ==
  ASSUME IInv, NEW w \in Workers, NEW k \in Keys, Enqueued(k), row[k] \in Past,
         req' \in [Workers -> Request], \A v \in Workers \ {w} : req'[v] = req[v],
         bytes' = bytes, row' = row, cron' = cron, missed' = missed,
         interrupted' = interrupted, account' = account, faults' = faults,
         HasTask(k)' /\ (\A j \in Keys : HasTask(j) => HasTask(j)') => Held(w)',
         ~At(w, "insert")', k \in HalfDeleted(w)',
         \A j \in Keys : j \in HalfDeleted(w) => j \in HalfDeleted(w)'
  PROVE  IInv'
<1> USE DEF IInv
<1>1. PICK n \in Ids : NextId(n) /\ task' = [task EXCEPT ![n] = [key |-> k, is |-> "pending"]]
  BY DEF Enqueued
<1>2. task[n].is = "none" /\ task[n].key = "malformed"
  BY <1>1 DEF NextId, Ledger
<1>3. /\ task'[n].key = k /\ task'[n].is = "pending"
      /\ \A i \in Ids \ {n} : task'[i] = task[i]
      /\ task' \in [Ids -> Task]
  BY <1>1 DEF TypeOK, Task
<1>4. HasTask(k)' /\ \A j \in Keys : HasTask(j) => HasTask(j)'
  BY <1>2, <1>3, VaultKeysAssumption DEF HasTask
<1>5. \A j \in Keys : HasTask(j)' /\ j # k => HasTask(j)
  BY <1>3 DEF HasTask
<1>6. TypeOK'
  BY <1>3 DEF TypeOK
<1>7. Ledger'
  BY <1>2, <1>3 DEF Ledger
<1>8. Taken'
  BY <1>2, <1>3 DEF Taken
<1>9. OwnKeys'
  <2> SUFFICES ASSUME NEW u \in Workers, NEW v \in Workers, u # v,
                      At(u, "insert")', At(v, "insert")'
               PROVE  req'[u].keys \cap req'[v].keys = {}
    BY DEF OwnKeys, At
  <2>1. u # w /\ v # w
    OBVIOUS
  <2> QED BY <2>1 DEF OwnKeys, At
<1>10. ASSUME NEW v \in Workers PROVE Held(v)'
  <2>1. CASE v = w
    BY <2>1, <1>4
  <2>2. CASE v # w
    BY <2>2, <1>4, StillHeld
  <2> QED BY <2>1, <2>2
<1>11. ASSUME NEW j \in Keys PROVE Known(j)'
  <2>1. \A v \in Workers \ {w} : j \in HalfDeleted(v) => j \in HalfDeleted(v)'
    BY DEF HalfDeleted
  <2>2. \A v \in Workers : j \in HalfDeleted(v) => j \in HalfDeleted(v)'
    BY <2>1
  <2>3. Known(j)
    OBVIOUS
  <2>4. HasTask(j)' => HasTask(j) \/ j \in HalfDeleted(w)'
    BY <1>5
  <2> QED BY <1>4, <2>2, <2>3, <2>4 DEF Known
<1> QED BY <1>6, <1>7, <1>8, <1>9, <1>10, <1>11

LEMMA DeleteEnqueuesKeeps == ASSUME IInv, NEW w \in Workers, DeleteEnqueues(w) PROVE IInv'
<1>1. TypeOK /\ At(w, "enqueue") /\ req[w] \in Request /\ Held(w)
  BY DEF DeleteEnqueues, IInv, TypeOK
<1>2. PICK k \in req[w].keys : Enqueued(k)
  BY DEF DeleteEnqueues
<1>3. /\ k \in Keys /\ row[k] \in Past /\ req[w].left = {} /\ \A j \in req[w].keys : j = k
  BY <1>1 DEF Held, Request
<1>4. /\ req'[w].at = "drop" /\ req'[w].keys = req[w].keys /\ req'[w].left = req[w].left
      /\ \A v \in Workers \ {w} : req'[v] = req[v]
      /\ req' \in [Workers -> Request]
  <2> DEFINE r == [req[w] EXCEPT !.at = "drop"]
  <2>1. r \in Request /\ r.at = "drop" /\ r.keys = req[w].keys /\ r.left = req[w].left
    BY <1>1 DEF Request, Stages
  <2>2. req' = [req EXCEPT ![w] = r]
    BY DEF DeleteEnqueues, Goes
  <2> HIDE DEF r
  <2> QED BY <1>1, <2>1, <2>2 DEF TypeOK
<1>5. /\ bytes' = bytes /\ row' = row /\ cron' = cron /\ missed' = missed
      /\ interrupted' = interrupted /\ account' = account /\ faults' = faults
  BY DEF DeleteEnqueues
<1>6. HasTask(k)' => Held(w)'
  BY <1>3, <1>4 DEF Held, At
<1>7. ~At(w, "insert")' /\ k \in HalfDeleted(w)' /\ \A j \in Keys : j \notin HalfDeleted(w)
  BY <1>1, <1>3, <1>4 DEF At, HalfDeleted
<1> QED BY <1>2, <1>3, <1>4, <1>5, <1>6, <1>7, EnqueueStep

LEMMA EraseEnqueuesKeeps == ASSUME IInv, NEW w \in Workers, EraseEnqueues(w) PROVE IInv'
<1>1. TypeOK /\ At(w, "eraseEnqueue") /\ req[w] \in Request /\ Held(w)
  BY DEF EraseEnqueues, IInv, TypeOK
<1>2. /\ \A k \in req[w].keys : row[k] \in Past
      /\ \A k \in req[w].keys \ req[w].left : HasTask(k)
      /\ req[w].left \subseteq req[w].keys /\ req[w].keys \subseteq Keys
  BY <1>1 DEF Held, Request
<1>3. /\ bytes' = bytes /\ row' = row /\ cron' = cron /\ missed' = missed
      /\ interrupted' = interrupted /\ account' = account /\ faults' = faults
  BY DEF EraseEnqueues
<1>4. ASSUME NEW k \in req[w].left, Enqueued(k), req' = [req EXCEPT ![w].left = @ \ {k}]
      PROVE  IInv'
  <2>1. /\ req'[w].at = "eraseEnqueue" /\ req'[w].keys = req[w].keys
        /\ req'[w].left = req[w].left \ {k}
        /\ \A v \in Workers \ {w} : req'[v] = req[v]
        /\ req' \in [Workers -> Request]
    <3> DEFINE r == [req[w] EXCEPT !.left = req[w].left \ {k}]
    <3>1. /\ r \in Request /\ r.at = "eraseEnqueue" /\ r.keys = req[w].keys
          /\ r.left = req[w].left \ {k}
      BY <1>1 DEF Request, At
    <3>2. req' = [req EXCEPT ![w] = r]
      BY <1>4
    <3> HIDE DEF r
    <3> QED BY <1>1, <3>1, <3>2 DEF TypeOK
  <2>2. k \in Keys /\ row[k] \in Past
    BY <1>2
  <2>3. HasTask(k)' /\ (\A j \in Keys : HasTask(j) => HasTask(j)') => Held(w)'
    BY <1>2, <1>3, <2>1 DEF Held, At
  <2>4. /\ ~At(w, "insert")' /\ k \in HalfDeleted(w)'
        /\ \A j \in Keys : j \in HalfDeleted(w) => j \in HalfDeleted(w)'
    BY <1>1, <1>2, <2>1 DEF At, HalfDeleted
  <2> QED BY <1>3, <1>4, <2>1, <2>2, <2>3, <2>4, EnqueueStep
<1>5. ASSUME req[w].left = {}, Goes(w, "eraseDrop"), UNCHANGED task
      PROVE  IInv'
  <2>1. /\ req'[w].at = "eraseDrop" /\ req'[w].keys = req[w].keys /\ req'[w].left = {}
        /\ \A v \in Workers \ {w} : req'[v] = req[v]
        /\ req' \in [Workers -> Request]
    <3> DEFINE r == [req[w] EXCEPT !.at = "eraseDrop"]
    <3>1. r \in Request /\ r.at = "eraseDrop" /\ r.keys = req[w].keys /\ r.left = {}
      BY <1>1, <1>5 DEF Request, Stages
    <3>2. req' = [req EXCEPT ![w] = r]
      BY <1>5 DEF Goes
    <3> HIDE DEF r
    <3> QED BY <1>1, <3>1, <3>2 DEF TypeOK
  <2>2. TypeOK'
    BY <1>1, <1>3, <1>5, <2>1 DEF TypeOK
  <2>3. Held(w)' /\ ~At(w, "insert")'
    BY <1>2, <1>5, <2>1 DEF Held, At, HasTask
  <2>4. \A j \in Keys : j \in HalfDeleted(w) => j \in HalfDeleted(w)'
    BY <1>5, <2>1 DEF HalfDeleted
  <2> QED BY <1>3, <1>5, <2>1, <2>2, <2>3, <2>4, RequestStep
<1> QED BY <1>4, <1>5 DEF EraseEnqueues

-----------------------------------------------------------------------------
(* The cron only takes bytes whose key a task names, and turns statuses.   *)
LEMMA CronStepKeeps ==
  ASSUME IInv, TypeOK', bytes' \subseteq bytes, row' = row, req' = req,
         missed' = missed, interrupted' = interrupted, Taken',
         \A i \in Ids : task'[i].key = task[i].key,
         \A i \in Ids : task'[i].is = "none" => task[i].is = "none",
         \A i \in Ids : task'[i].is = "done" => task[i].key \notin bytes',
         \A k \in Keys : k \in bytes /\ k \notin bytes' => HasTask(k)
  PROVE  IInv'
<1> USE DEF IInv
<1>1. \A k \in Keys : HasTask(k) <=> HasTask(k)'
  BY DEF HasTask
<1>2. Ledger'
  BY DEF Ledger
<1>3. OwnKeys'
  BY DEF OwnKeys, At
<1>4. ASSUME NEW v \in Workers PROVE Held(v)'
  BY <1>1, StillHeld DEF TypeOK, Request
<1>5. ASSUME NEW k \in Keys PROVE Known(k)'
  <2>1. \A v \in Workers : k \in HalfDeleted(v) <=> k \in HalfDeleted(v)'
    BY DEF HalfDeleted
  <2>2. Known(k)
    OBVIOUS
  <2> QED BY <1>1, <2>1, <2>2 DEF Known
<1> QED BY <1>2, <1>3, <1>4, <1>5

LEMMA CronReadsKeeps == ASSUME IInv, NEW c \in Crons, CronReads(c) PROVE IInv'
<1>1. TypeOK /\ Taken /\ Ledger
  BY DEF IInv
<1>2. /\ bytes' = bytes /\ row' = row /\ req' = req /\ task' = task /\ account' = account
      /\ missed' = missed /\ interrupted' = interrupted /\ faults' = faults
  BY DEF CronReads
<1>3. Oldest \subseteq Pending
  BY DEF Oldest
<1>4. /\ cron'[c].left = Oldest /\ cron'[c].marks = {}
      /\ \A d \in Crons \ {c} : cron'[d] = cron[d]
  BY <1>1 DEF CronReads, TypeOK, NoRun
<1>5. cron' \in [Crons -> Run]
  BY <1>1, <1>3 DEF CronReads, TypeOK, NoRun, Run, Pending
<1>6. TypeOK'
  BY <1>1, <1>2, <1>5 DEF TypeOK
<1>7. \A i \in Oldest : task[i].is # "none"
  BY <1>3 DEF Pending
<1>8. Taken'
  BY <1>1, <1>2, <1>4, <1>7 DEF Taken
<1>9. \A i \in Ids : task[i].is = "done" => task[i].key \notin bytes
  BY <1>1 DEF Ledger
<1> QED BY <1>2, <1>6, <1>8, <1>9, CronStepKeeps

LEMMA CronDeletesKeeps ==
  ASSUME IInv, NEW c \in Crons, NEW i \in Ids, CronDeletes(c, i) PROVE IInv'
<1>1. TypeOK /\ Taken /\ Ledger /\ task[i].key \in Keys /\ i \in cron[c].left
  BY DEF IInv, CronDeletes, TakesUp
<1>2. /\ bytes' = bytes \ {task[i].key} /\ row' = row /\ req' = req /\ task' = task
      /\ account' = account /\ missed' = missed /\ interrupted' = interrupted
      /\ faults' = faults
  BY DEF CronDeletes
<1>3. /\ cron'[c].left = cron[c].left \ {i} /\ cron'[c].marks = {i}
      /\ \A d \in Crons \ {c} : cron'[d] = cron[d]
  BY <1>1 DEF CronDeletes, TypeOK
<1>4. cron' \in [Crons -> Run]
  BY <1>1 DEF CronDeletes, TypeOK, Run
<1>5. TypeOK'
  BY <1>1, <1>2, <1>4 DEF TypeOK
<1>6. Taken'
  <2> SUFFICES ASSUME NEW d \in Crons, NEW j \in Ids
               PROVE  /\ j \in cron'[d].left \cup cron'[d].marks => task[j].is # "none"
                      /\ j \in cron'[d].marks => task[j].key \notin bytes'
    BY <1>2 DEF Taken
  <2>1. CASE d = c
    BY <2>1, <1>1, <1>2, <1>3 DEF Taken
  <2>2. CASE d # c
    BY <2>2, <1>1, <1>2, <1>3 DEF Taken
  <2> QED BY <2>1, <2>2
<1>7. \A k \in Keys : k \in bytes /\ k \notin bytes' => HasTask(k)
  BY <1>2 DEF HasTask
<1>8. \A j \in Ids : task[j].is = "done" => task[j].key \notin bytes'
  BY <1>1, <1>2 DEF Ledger
<1> QED BY <1>2, <1>5, <1>6, <1>7, <1>8, CronStepKeeps

LEMMA CronMarksKeeps ==
  ASSUME IInv, NEW c \in Crons, NEW i \in Ids, CronMarks(c, i) PROVE IInv'
<1>1. TypeOK /\ Taken /\ Ledger /\ i \in cron[c].marks
  BY DEF IInv, CronMarks
<1>2. task[i].key \notin bytes
  BY <1>1 DEF Taken
<1>3. /\ bytes' = bytes /\ row' = row /\ req' = req /\ account' = account
      /\ missed' = missed /\ interrupted' = interrupted /\ faults' = faults
  BY DEF CronMarks
<1>4. /\ task'[i].is = "done" /\ task'[i].key = task[i].key
      /\ \A j \in Ids \ {i} : task'[j] = task[j]
      /\ task' \in [Ids -> Task]
  BY <1>1 DEF CronMarks, TypeOK, Task
<1>5. /\ cron'[c].left = cron[c].left /\ cron'[c].marks = {}
      /\ \A d \in Crons \ {c} : cron'[d] = cron[d]
      /\ cron' \in [Crons -> Run]
  BY <1>1 DEF CronMarks, TypeOK, Run
<1>6. TypeOK'
  BY <1>1, <1>3, <1>4, <1>5 DEF TypeOK
<1>7. \A j \in Ids : task'[j].key = task[j].key /\ (task'[j].is = "none" => task[j].is = "none")
  BY <1>4
<1>8. Taken'
  <2> SUFFICES ASSUME NEW d \in Crons, NEW j \in Ids
               PROVE  /\ j \in cron'[d].left \cup cron'[d].marks => task'[j].is # "none"
                      /\ j \in cron'[d].marks => task'[j].key \notin bytes
    BY <1>3 DEF Taken
  <2>1. cron'[d].left \subseteq cron[d].left /\ cron'[d].marks \subseteq cron[d].marks
    BY <1>5
  <2> QED BY <2>1, <1>1, <1>7 DEF Taken
<1>9. \A j \in Ids : task'[j].is = "done" => task[j].key \notin bytes
  BY <1>1, <1>2, <1>4 DEF Ledger
<1> QED BY <1>3, <1>6, <1>7, <1>8, <1>9, CronStepKeeps

(* A task that fails, and a run that ends, only forget what was taken up.  *)
LEMMA CronForgets ==
  ASSUME IInv, NEW c \in Crons, cron' \in [Crons -> Run],
         cron'[c].left \subseteq cron[c].left, cron'[c].marks = {},
         \A d \in Crons \ {c} : cron'[d] = cron[d],
         bytes' = bytes, row' = row, req' = req, task' = task, account' = account,
         missed' = missed, interrupted' = interrupted, faults' \in 0..MaxFaults
  PROVE  IInv'
<1>1. TypeOK /\ Taken /\ Ledger
  BY DEF IInv
<1>2. TypeOK'
  BY <1>1 DEF TypeOK
<1>3. Taken'
  BY <1>1 DEF Taken
<1>4. \A j \in Ids : task[j].is = "done" => task[j].key \notin bytes
  BY <1>1 DEF Ledger
<1> QED BY <1>2, <1>3, <1>4, CronStepKeeps

LEMMA CronFailsKeeps ==
  ASSUME IInv, NEW c \in Crons, NEW i \in Ids, CronFails(c, i) PROVE IInv'
<1>1. TypeOK
  BY DEF IInv
<1>2. faults' \in 0..MaxFaults
  BY <1>1, VaultBoundsAssumption DEF CronFails, Faulty, TypeOK
<1>3. /\ cron'[c].left = cron[c].left \ {i} /\ cron'[c].marks = {}
      /\ \A d \in Crons \ {c} : cron'[d] = cron[d]
      /\ cron' \in [Crons -> Run]
  BY <1>1 DEF CronFails, TypeOK, Run
<1> QED BY <1>2, <1>3, CronForgets DEF CronFails

LEMMA CronDiesKeeps == ASSUME IInv, NEW c \in Crons, CronDies(c) PROVE IInv'
<1>1. TypeOK
  BY DEF IInv
<1>2. faults' \in 0..MaxFaults
  BY <1>1, VaultBoundsAssumption DEF CronDies, Faulty, TypeOK
<1>3. /\ cron'[c].left = {} /\ cron'[c].marks = {}
      /\ \A d \in Crons \ {c} : cron'[d] = cron[d]
      /\ cron' \in [Crons -> Run]
  BY <1>1 DEF CronDies, TypeOK, Run, NoRun
<1> QED BY <1>2, <1>3, CronForgets DEF CronDies

-----------------------------------------------------------------------------
LEMMA StepHolds == IInv /\ [Next]_vars => IInv'
<1> SUFFICES ASSUME IInv, [Next]_vars PROVE IInv'
  OBVIOUS
<1>1. CASE UNCHANGED vars
  BY <1>1 DEF vars, IInv, TypeOK, Ledger, Taken, OwnKeys, Held, Known, HasTask, HalfDeleted, At
<1>2. ASSUME NEW w \in Workers, Requests(w) PROVE IInv'
  BY <1>2, UploadPutsKeeps, UploadInsertsKeeps, UploadIndexesKeeps, DeleteLooksKeeps,
     DeleteEnqueuesKeeps, DeleteDropsKeeps, EraseListsKeeps, EraseEnqueuesKeeps,
     EraseDropsKeeps, EraseEndsAccountKeeps, DiesKeeps DEF Requests
<1>3. ASSUME NEW c \in Crons, CronStep(c) PROVE IInv'
  BY <1>3, CronReadsKeeps, CronDeletesKeeps, CronMarksKeeps, CronFailsKeeps DEF CronStep
<1>4. ASSUME NEW c \in Crons, CronDies(c) PROVE IInv'
  BY <1>4, CronDiesKeeps
<1> QED BY <1>1, <1>2, <1>3, <1>4 DEF Next

LEMMA InvAlways == Spec => []IInv
BY InitHolds, StepHolds, PTL DEF Spec

LEMMA InvSays == IInv => TypeOK /\ NothingForgotten /\ DoneMeansGone /\ MetadataGoesWithBytes
<1> SUFFICES ASSUME IInv
             PROVE  TypeOK /\ NothingForgotten /\ DoneMeansGone /\ MetadataGoesWithBytes
  OBVIOUS
<1> USE DEF IInv
<1>1. DoneMeansGone
  BY DEF DoneMeansGone, Ledger
<1>2. NothingForgotten
  <2> SUFFICES ASSUME NEW k \in bytes, row[k] = "gone", k \notin missed
               PROVE  \E i \in Pending : task[i].key = k
    BY DEF NothingForgotten
  <2>1. k \in Keys
    BY DEF TypeOK
  <2>2. PICK i \in Ids : task[i].key = k
    BY <2>1 DEF Known, HasTask
  <2>3. task[i].is \in {"none", "pending", "done"}
    BY DEF TypeOK, Task
  <2>4. task[i].is = "pending"
    BY <2>1, <2>2, <2>3, VaultKeysAssumption DEF Ledger
  <2> QED BY <2>2, <2>4 DEF Pending
<1>3. MetadataGoesWithBytes
  BY DEF MetadataGoesWithBytes, Recorded, Known
<1> QED BY <1>1, <1>2, <1>3

-----------------------------------------------------------------------------
(* Every row, task, request and run keeps its type.                        *)
THEOREM VaultTypeCorrect == Spec => []TypeOK
BY InvAlways, InvSays, PTL

(* However deletions, erases and deaths overlap, bytes whose row was       *)
(* dropped have a pending task, but those of an upload an erase missed     *)
(* (deleteVaultDocument, delete-data, runDeletionTasks).                   *)
THEOREM DeletionsAreNotForgotten == Spec => []NothingForgotten
BY InvAlways, InvSays, PTL

(* A task marked done stands for bytes that are gone and stay gone         *)
(* (runDeletionTasks, putEncryptedObject).                                 *)
THEOREM DoneStaysGone == Spec => []DoneMeansGone
BY InvAlways, InvSays, PTL

(* A document or photo without bytes is one whose deletion is under way or *)
(* died between its two steps.                                             *)
THEOREM MetadataNeverAlone == Spec => []MetadataGoesWithBytes
BY InvAlways, InvSays, PTL
=============================================================================
