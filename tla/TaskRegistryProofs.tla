-------------------------- MODULE TaskRegistryProofs --------------------------
(***************************************************************************)
(* Proofs about TaskRegistry, for every set of connections and packages    *)
(* and every number of tasks.  The inductive invariant says, for each      *)
(* location of each actor, what the task it points to is.                  *)
(***************************************************************************)
EXTENDS TaskRegistry, FunctionTheorems, FiniteSetTheorems, TLAPS

BackgroundOps == {"copy", "extract"}
UploadLocs == StreamLocs \cup {"found", "finish", "finishing"}

(* Ids are handed out in order. *)
Allocated == \A t \in Id : op[t] = "none" <=> t >= nextId

(* A worker thread exists for background tasks only, and has an outcome to *)
(* store when it comes to that.                                            *)
WorkerInv ==
  \A t \in Id :
    /\ wpc[t] # "none" => op[t] \in BackgroundOps
    /\ wpc[t] \in WorkerLocs => IsActive(t)
    /\ wpc[t] = "settle" => wend[t] \in TerminalStates

(* What the task pointer of a handler points to. *)
SpawnInv(h) ==
  hpc[h] = "spawn" => /\ htask[h] \in Id
                      /\ op[htask[h]] \in BackgroundOps
                      /\ state[htask[h]] = "queued"
                      /\ wpc[htask[h]] = "none"

DownloadInv(h) ==
  /\ hpc[h] \in DownloadLocs => /\ htask[h] \in Id
                                /\ op[htask[h]] = "download"
                                /\ state[htask[h]] = "running"
  /\ hpc[h] = "oom" => /\ htask[h] \in Id
                       /\ op[htask[h]] = "download"
                       /\ state[htask[h]] \in TerminalStates \cup {"freed"}

UploadInv(h) ==
  hpc[h] \in UploadLocs => htask[h] \in Id /\ op[htask[h]] = "upload"

OutcomeInv(h) ==
  hpc[h] \in {"settle", "settle_oom", "fail", "finishing"} => hend[h] \in TerminalStates

PointerInv(h) == SpawnInv(h) /\ DownloadInv(h) /\ UploadInv(h) /\ OutcomeInv(h)

HandlerInv == \A h \in Handlers : PointerInv(h)

(* No two threads are about to start, or stream, the same task. *)
Unshared ==
  \A g, h \in Handlers :
    g # h /\ {hpc[g], hpc[h]} \subseteq DownloadLocs \cup {"spawn"} => htask[g] # htask[h]

PkgInv == pkgpc = "install" => pkgTask \in Id /\ op[pkgTask] = "pkg"

IInv ==
  /\ TypeOK /\ Allocated /\ WorkerInv /\ HandlerInv /\ Unshared /\ PkgInv
  /\ OneActiveBesidesUploads /\ PkgPathsDistinct /\ PkgResultReported

-------------------------------------------------------------------------------
(* What the helpers of task.c do to the list.                              *)

State == {"none", "freed"} \cup ActiveStates \cup TerminalStates

(* A reap frees finished tasks only, and of those no task with a stream    *)
(* open nor a package whose result was not shown.                          *)
LEMMA ReapedFacts ==
  ASSUME TypeOK, NEW rep
  PROVE  /\ Reaped(rep) \in [Id -> State]
         /\ \A t \in Id :
              \/ Reaped(rep)[t] = state[t]
              \/ /\ Reaped(rep)[t] = "freed"
                 /\ IsTerminal(t) /\ streams[t] = 0
                 /\ op[t] = "pkg" => rep[t]
  BY DEF Reaped, State, TypeOK, IsTerminal, TerminalStates

(* task_update() sets one task, unless it was freed.                       *)
LEMMA TaskUpdateFacts ==
  ASSUME TypeOK, NEW x \in Id, NEW s \in ActiveStates \cup TerminalStates,
         TaskUpdate(x, s)
  PROVE  /\ state' \in [Id -> State]
         /\ \A t \in Id : state'[t] = IF t = x /\ state[t] # "freed" THEN s ELSE state[t]
<1>1. state' = [state EXCEPT ![x] = IF @ = "freed" THEN @ ELSE s]
  BY DEF TaskUpdate
<1>2. state \in [Id -> State]
  BY DEF TypeOK, State
<1> QED BY <1>1, <1>2 DEF State

(* Steps that insert no task: a state changes by a reap, or to an outcome, *)
(* or to RUNNING where the task was active or is an upload.                *)
Tame ==
  /\ UNCHANGED <<nextId, op, path>>
  /\ state' \in [Id -> State]
  /\ \A t \in Id :
       /\ state'[t] = "none" <=> state[t] = "none"
       /\ reported[t] => reported'[t]
       /\ state'[t] = "freed" =>
            state[t] = "freed" \/ (IsTerminal(t) /\ (op[t] = "pkg" => reported'[t]))
       /\ state'[t] \in ActiveStates => IsActive(t) \/ op[t] = "upload"

LEMMA TameKeeps ==
  ASSUME IInv, Tame
  PROVE  /\ Allocated' /\ OneActiveBesidesUploads' /\ PkgPathsDistinct'
         /\ PkgResultReported'
         /\ \A t \in Id : state'[t] = "none" <=> t >= nextId'
<1>1. Allocated'
  BY DEF IInv, Tame, Allocated
<1>2. OneActiveBesidesUploads'
  BY DEF IInv, Tame, OneActiveBesidesUploads, IsActive
<1>3. PkgPathsDistinct'
  BY DEF IInv, Tame, PkgPathsDistinct, IsActive
<1>4. PkgResultReported'
  BY DEF IInv, Tame, PkgResultReported
<1>5. \A t \in Id : state'[t] = "none" <=> t >= nextId'
  BY DEF IInv, Tame, TypeOK
<1> QED BY <1>1, <1>2, <1>3, <1>4, <1>5

(* Steps that leave every active task but uploads as it is, and no         *)
(* download comes back: nobody's pointer is disturbed.                     *)
Undisturbed(t) ==
  /\ IsActive(t) /\ op[t] # "upload" => state'[t] = state[t]
  /\ op[t] = "download" /\ state[t] \in TerminalStates \cup {"freed"}
       => state'[t] \in TerminalStates \cup {"freed"}

Calm == \A t \in Id : Undisturbed(t)

LEMMA ReapIsTame ==
  ASSUME IInv, state' = Reaped(reported'), UNCHANGED <<nextId, op, path>>,
         \A t \in Id : reported[t] => reported'[t]
  PROVE  Tame /\ Calm
<1>1. TypeOK
  BY DEF IInv
<1>2. /\ state' \in [Id -> State]
      /\ \A t \in Id :
           \/ state'[t] = state[t]
           \/ state'[t] = "freed" /\ IsTerminal(t) /\ (op[t] = "pkg" => reported'[t])
  BY <1>1, ReapedFacts
<1>3. Tame
  BY <1>1, <1>2 DEF Tame, IsActive, IsTerminal, ActiveStates, TerminalStates
<1>4. Calm
  BY <1>1, <1>2 DEF Calm, Undisturbed, IsActive, IsTerminal, ActiveStates, TerminalStates
<1> QED BY <1>3, <1>4

LEMMA SameIsTame ==
  ASSUME IInv, UNCHANGED <<nextId, op, path, state, reported>>
  PROVE  Tame /\ Calm
  BY DEF IInv, TypeOK, Tame, Calm, Undisturbed, State, IsActive

(* Storing a state in a task that was handed out.                          *)
LEMMA UpdateIsTame ==
  ASSUME IInv, NEW x \in Id, NEW s \in ActiveStates \cup TerminalStates,
         TaskUpdate(x, s), UNCHANGED <<nextId, op, path, reported>>,
         op[x] # "none",
         s \in TerminalStates \/ IsActive(x) \/ op[x] = "upload"
  PROVE  /\ Tame
         /\ \A t \in Id : state'[t] = IF t = x /\ state[t] # "freed" THEN s ELSE state[t]
<1>1. TypeOK
  BY DEF IInv
<1>2. /\ state' \in [Id -> State]
      /\ \A t \in Id : state'[t] = IF t = x /\ state[t] # "freed" THEN s ELSE state[t]
  BY <1>1, TaskUpdateFacts
<1>3. state[x] # "none"
  BY <1>1 DEF IInv, TypeOK, Allocated
<1>4. Tame
  BY <1>1, <1>2, <1>3 DEF Tame, IsActive, ActiveStates, TerminalStates
<1> QED BY <1>2, <1>4

-------------------------------------------------------------------------------
(* Worker threads.                                                         *)

LEMMA WorkerStep ==
  ASSUME IInv, NEW t \in Id, Worker(t)
  PROVE  IInv'
<1>1. /\ op[t] \in BackgroundOps /\ IsActive(t)
      /\ wpc[t] \in WorkerLocs /\ (wpc[t] = "settle" => wend[t] \in TerminalStates)
  BY DEF IInv, WorkerInv, Worker, WorkerStart, WorkerDone, WorkerCanceled, WorkerFailed,
         WorkerStuck, WorkerRecheck, WorkerSettle, WorkerLocs
<1>2. /\ UNCHANGED <<table, handler, pkg>>
      /\ \A u \in Id : u # t => wpc'[u] = wpc[u] /\ wend'[u] = wend[u]
      /\ wpc' \in [Id -> WorkerLocs \cup {"none", "exit"}] /\ wend' \in [Id -> Outcomes]
      /\ wpc'[t] \in WorkerLocs \cup {"exit"}
      /\ wpc'[t] = "settle" => wend'[t] \in TerminalStates
  BY DEF IInv, TypeOK, Worker, WorkerStart, WorkerDone, WorkerCanceled, WorkerFailed,
         WorkerStuck, WorkerRecheck, WorkerSettle, WorkerLocs, Outcomes, TerminalStates
<1>3. /\ Tame
      /\ \A u \in Id : u # t => state'[u] = state[u]
      /\ wpc'[t] # "exit" => state'[t] \in ActiveStates
  <2>1. CASE UNCHANGED state /\ wpc'[t] # "exit"
    BY <1>1, <1>2, <2>1, SameIsTame DEF table, IsActive
  <2>2. CASE \E s \in ActiveStates \cup TerminalStates :
               TaskUpdate(t, s) /\ (wpc'[t] # "exit" => s = "running")
    <3>1. PICK s \in ActiveStates \cup TerminalStates :
               TaskUpdate(t, s) /\ (wpc'[t] # "exit" => s = "running")
      BY <2>2
    <3> QED BY <1>1, <1>2, <3>1, UpdateIsTame
            DEF table, IsActive, ActiveStates, BackgroundOps
  <2> QED
    BY <1>1, <2>1, <2>2
    DEF IInv, TypeOK, Worker, WorkerStart, WorkerDone, WorkerCanceled, WorkerFailed,
        WorkerStuck, WorkerRecheck, WorkerSettle, ActiveStates, TerminalStates, WorkerLocs
<1>4. completion' \in Id \cup {NoTask}
  BY DEF IInv, TypeOK, Worker, WorkerStart, WorkerDone, WorkerCanceled, WorkerFailed,
         WorkerStuck, WorkerRecheck, WorkerSettle, Completed
<1>5. TypeOK'
  BY <1>2, <1>3, <1>4, TameKeeps
  DEF IInv, TypeOK, Tame, State, table, handler, pkg
<1>6. WorkerInv'
  BY <1>1, <1>2, <1>3 DEF IInv, WorkerInv, WorkerLocs, IsActive, table
<1>7. HandlerInv'
  <2> SUFFICES ASSUME NEW h \in Handlers
               PROVE  PointerInv(h)'
    BY DEF HandlerInv
  <2>1. SpawnInv(h) /\ DownloadInv(h) /\ UploadInv(h) /\ OutcomeInv(h)
    BY DEF IInv, HandlerInv, PointerInv
  <2>2. SpawnInv(h)'
    BY <1>1, <1>2, <1>3, <2>1 DEF SpawnInv, table, handler, WorkerLocs
  <2>3. DownloadInv(h)'
    BY <1>1, <1>2, <1>3, <2>1 DEF DownloadInv, table, handler, BackgroundOps
  <2> QED BY <1>2, <2>1, <2>2, <2>3 DEF PointerInv, UploadInv, OutcomeInv, table, handler
<1>8. Unshared' /\ PkgInv'
  BY <1>2 DEF IInv, Unshared, PkgInv, table, handler, pkg
<1> QED BY <1>3, <1>5, <1>6, <1>7, <1>8, TameKeeps DEF IInv

-------------------------------------------------------------------------------
(* Handlers that insert no task.                                           *)

Locs == DownloadLocs \cup UploadLocs
          \cup {"idle", "spawn", "reply", "oom", "checked", "fileop"}

(* Handler h moves: of the tasks others point to, it may disturb only the  *)
(* download it holds or a download nobody holds.                           *)
Move(h) ==
  /\ Tame
  /\ UNCHANGED <<cancel, reported, worker, pkg>>
  /\ streams' \in [Id -> Nat] /\ completion' \in Id \cup {NoTask}
  /\ hpc' \in [Handlers -> Locs] /\ htask' \in [Handlers -> Id \cup {NoTask}]
  /\ hend' \in [Handlers -> Outcomes]
  /\ \A g \in Handlers : g # h => hpc'[g] = hpc[g] /\ htask'[g] = htask[g] /\ hend'[g] = hend[g]
  /\ \A t \in Id : \/ Undisturbed(t)
                   \/ t = htask[h] /\ hpc[h] \in DownloadLocs
                   \/ op[t] = "download" /\ state[t] = "queued"
  /\ hpc'[h] # "spawn"
  /\ hpc'[h] \in DownloadLocs =>
       \/ hpc[h] \in DownloadLocs /\ htask'[h] = htask[h]
       \/ state[htask'[h]] = "queued"

LEMMA MoveKeeps ==
  ASSUME IInv, NEW h \in Handlers, Move(h), \A x : x = h => PointerInv(x)'
  PROVE  IInv'
<1>1. Tame /\ Allocated' /\ OneActiveBesidesUploads' /\ PkgPathsDistinct' /\ PkgResultReported'
  BY TameKeeps DEF Move
<1>2. TypeOK'
  BY TameKeeps DEF Move, Tame, IInv, TypeOK, State, Locs, UploadLocs, worker, pkg
<1>3. WorkerInv'
  BY DEF Move, Tame, IInv, WorkerInv, WorkerLocs, HandlerInv, PointerInv,
         DownloadInv, Undisturbed, IsActive, BackgroundOps, worker
<1>4. \A g \in Handlers : g # h => PointerInv(g)'
  <2> SUFFICES ASSUME NEW g \in Handlers, g # h
               PROVE  PointerInv(g)'
    OBVIOUS
  <2>1. PointerInv(g) /\ PointerInv(h)
    BY DEF IInv, HandlerInv
  <2>2. SpawnInv(g)'
    BY <2>1 DEF Move, Tame, PointerInv, SpawnInv, DownloadInv, Undisturbed, IsActive,
                ActiveStates, BackgroundOps, worker
  <2>3. ASSUME hpc[g] \in DownloadLocs
        PROVE  hpc[h] \in DownloadLocs => htask[g] # htask[h]
    BY <2>3 DEF IInv, Unshared
  <2>4. DownloadInv(g)'
    BY <2>1, <2>3 DEF Move, Tame, PointerInv, DownloadInv, Undisturbed, IsActive,
                      ActiveStates, TerminalStates
  <2>5. UploadInv(g)' /\ OutcomeInv(g)'
    BY <2>1 DEF Move, Tame, PointerInv, UploadInv, OutcomeInv
  <2> QED BY <2>2, <2>4, <2>5 DEF PointerInv
<1>5. HandlerInv'
  BY <1>4 DEF HandlerInv
<1>6. Unshared'
  <2>1. ASSUME NEW g \in Handlers, g # h, hpc[g] \in DownloadLocs \cup {"spawn"},
               hpc'[h] \in DownloadLocs
        PROVE  htask[g] # htask'[h]
    <3>1. PointerInv(g) /\ (\A x : x = h => PointerInv(x)')
      BY DEF IInv, HandlerInv
    <3>2. CASE hpc[h] \in DownloadLocs /\ htask'[h] = htask[h]
      BY <2>1, <3>2 DEF IInv, Unshared
    <3>3. CASE state[htask'[h]] = "queued"
      BY <2>1, <3>1, <3>3 DEF PointerInv, SpawnInv, DownloadInv, BackgroundOps, Move, Tame
    <3> QED BY <2>1, <3>2, <3>3 DEF Move
  <2> QED BY <2>1 DEF IInv, Unshared, Move
<1>7. PkgInv'
  BY DEF IInv, PkgInv, Move, Tame, pkg
<1> QED BY <1>1, <1>2, <1>3, <1>5, <1>6, <1>7 DEF IInv

(* The state of a task is set to s, or stays.                              *)
LEMMA QuietMove ==
  ASSUME IInv, NEW h \in Handlers, UNCHANGED <<nextId, op, path, state, reported>>
  PROVE  /\ Tame /\ (\A t \in Id : Undisturbed(t)) /\ state' = state
  BY SameIsTame DEF Calm

LEMMA DownloadStep ==
  ASSUME IInv, NEW h \in Handlers, Download(h)
  PROVE  IInv'
<1>0. PointerInv(h) /\ TypeOK
  BY DEF IInv, HandlerInv
<1>1. ASSUME NEW t \in Id, DownloadClaim(h, t)
      PROVE  IInv'
  <2>1. /\ Tame
        /\ \A u \in Id : state'[u] = IF u = t /\ state[u] # "freed" THEN "running" ELSE state[u]
    BY <1>0, <1>1, UpdateIsTame DEF DownloadClaim, IsActive, ActiveStates, table
  <2>2. Move(h)
    BY <1>0, <1>1, <2>1
    DEF DownloadClaim, Handle, Goto, TypeOK, Move, table, Undisturbed, Locs, UploadLocs, DownloadLocs
  <2>3. \A x : x = h => PointerInv(x)'
    BY <1>0, <1>1, <2>1
    DEF DownloadClaim, Handle, Goto, TypeOK, table, PointerInv, SpawnInv, DownloadInv,
        UploadInv, OutcomeInv, DownloadLocs, UploadLocs, StreamLocs
  <2> QED BY <2>2, <2>3, MoveKeeps
<1>2. CASE DownloadPrepare(h)
  <2>1. htask[h] \in Id /\ op[htask[h]] = "download" /\ state[htask[h]] = "running"
    BY <1>0, <1>2 DEF DownloadPrepare, PointerInv, DownloadInv, DownloadLocs
  <2>2. Tame /\ (\A u \in Id : state'[u] = state[u])
    BY <1>0, <1>2, <2>1, UpdateIsTame DEF DownloadPrepare, IsActive, ActiveStates, table
  <2>3. /\ hpc' \in [Handlers -> Locs] /\ hend' \in [Handlers -> Outcomes] /\ htask' = htask
        /\ \A g \in Handlers : g # h => hpc'[g] = hpc[g] /\ hend'[g] = hend[g]
        /\ hpc'[h] \in {"read", "sent", "abort", "close_oom", "settle"}
        /\ hpc'[h] = "settle" => hend'[h] = "failed"
    BY <1>0, <1>2 DEF DownloadPrepare, Goto, Decide, TypeOK, Locs, DownloadLocs, UploadLocs,
                      StreamLocs, Outcomes, TerminalStates
  <2>4. Move(h)
    BY <1>0, <1>2, <2>2, <2>3
    DEF DownloadPrepare, TypeOK, Move, table, Undisturbed, DownloadLocs
  <2>5. \A x : x = h => PointerInv(x)'
    BY <1>0, <1>2, <2>1, <2>2, <2>3
    DEF DownloadPrepare, table, PointerInv, SpawnInv, DownloadInv, UploadInv, OutcomeInv,
        DownloadLocs, UploadLocs, StreamLocs, TerminalStates
  <2> QED BY <2>4, <2>5, MoveKeeps
<1>3. CASE DownloadRead(h)
  <2>1. htask[h] \in Id /\ op[htask[h]] = "download" /\ state[htask[h]] = "running"
    BY <1>0, <1>3 DEF DownloadRead, PointerInv, DownloadInv, DownloadLocs
  <2>2. Tame /\ (\A u \in Id : state'[u] = state[u])
    BY <1>0, <1>3, <2>1, UpdateIsTame DEF DownloadRead, IsActive, ActiveStates, table
  <2>3. Move(h)
    BY <1>0, <1>3, <2>2
    DEF DownloadRead, Goto, TypeOK, Move, table, Undisturbed, Locs, UploadLocs, DownloadLocs
  <2>4. \A x : x = h => PointerInv(x)'
    BY <1>0, <1>3, <2>1, <2>2
    DEF DownloadRead, Goto, TypeOK, table, PointerInv, SpawnInv, DownloadInv, UploadInv,
        OutcomeInv, DownloadLocs, UploadLocs, StreamLocs
  <2> QED BY <2>3, <2>4, MoveKeeps
<1>4. CASE DownloadClose(h)
  <2>1. htask[h] \in Id /\ op[htask[h]] = "download" /\ state[htask[h]] = "running"
    BY <1>0, <1>4 DEF DownloadClose, PointerInv, DownloadInv, DownloadLocs
  <2>2. Tame /\ (\A u \in Id : Undisturbed(u)) /\ state' = state
    BY <1>4, QuietMove DEF DownloadClose, table
  <2>3. Move(h)
    BY <1>0, <1>4, <2>2
    DEF DownloadClose, Decide, Goto, TypeOK, Move, table, Locs, UploadLocs, DownloadLocs, Outcomes,
        TerminalStates
  <2>4. \A x : x = h => PointerInv(x)'
    BY <1>0, <1>4, <2>1, <2>2
    DEF DownloadClose, Decide, Goto, TypeOK, table, PointerInv, SpawnInv, DownloadInv,
        UploadInv, OutcomeInv, DownloadLocs, UploadLocs, StreamLocs, TerminalStates
  <2> QED BY <2>3, <2>4, MoveKeeps
<1>5. CASE DownloadSettle(h)
  <2>1. /\ htask[h] \in Id /\ op[htask[h]] = "download" /\ state[htask[h]] = "running"
        /\ hend[h] \in TerminalStates
    BY <1>0, <1>5 DEF DownloadSettle, PointerInv, DownloadInv, OutcomeInv, DownloadLocs
  <2>2. Tame /\ (\A u \in Id : state'[u] = IF u = htask[h] THEN hend[h] ELSE state[u])
    BY <1>0, <1>5, <2>1, UpdateIsTame DEF DownloadSettle, table
  <2>3. Move(h)
    BY <1>0, <1>5, <2>2
    DEF DownloadSettle, Return, Goto, TypeOK, Move, table, Undisturbed, Locs, UploadLocs, DownloadLocs,
        Outcomes
  <2>4. \A x : x = h => PointerInv(x)'
    BY <1>0, <1>5, <2>1, <2>2
    DEF DownloadSettle, Return, Goto, TypeOK, table, PointerInv, SpawnInv, DownloadInv,
        UploadInv, OutcomeInv, DownloadLocs, UploadLocs, StreamLocs
  <2> QED BY <2>3, <2>4, MoveKeeps
<1>6. CASE DownloadOom(h)
  <2>1. /\ htask[h] \in Id /\ op[htask[h]] = "download"
        /\ state[htask[h]] \in TerminalStates \cup {"freed"}
    BY <1>0, <1>6 DEF DownloadOom, PointerInv, DownloadInv
  <2>2. Tame /\ (\A u \in Id : state'[u] =
                   IF u = htask[h] /\ state[u] # "freed" THEN "failed" ELSE state[u])
    BY <1>0, <1>6, <2>1, UpdateIsTame DEF DownloadOom, TerminalStates, table
  <2>3. Move(h)
    BY <1>0, <1>6, <2>1, <2>2
    DEF DownloadOom, Return, TypeOK, Move, table, Undisturbed, Locs, UploadLocs, DownloadLocs,
        Outcomes, IsActive, ActiveStates, TerminalStates
  <2>4. \A x : x = h => PointerInv(x)'
    BY <1>0, <1>6
    DEF DownloadOom, Return, TypeOK, PointerInv, SpawnInv, DownloadInv, UploadInv,
        OutcomeInv, DownloadLocs, UploadLocs, StreamLocs
  <2> QED BY <2>3, <2>4, MoveKeeps
<1> QED BY <1>1, <1>2, <1>3, <1>4, <1>5, <1>6 DEF Download

(* Handlers at a location from which a task is looked up or stored to.     *)
LEMMA UploadMove ==
  ASSUME IInv, NEW h \in Handlers, Tame, hpc[h] \in UploadLocs,
         \A t \in Id : t # htask[h] => state'[t] = state[t],
         UNCHANGED <<cancel, reported, worker, pkg>>,
         streams' \in [Id -> Nat], completion' \in Id \cup {NoTask},
         hpc' \in [Handlers -> Locs], htask' \in [Handlers -> Id \cup {NoTask}],
         hend' \in [Handlers -> Outcomes],
         \A g \in Handlers : g # h => hpc'[g] = hpc[g] /\ htask'[g] = htask[g] /\ hend'[g] = hend[g],
         hpc'[h] = "idle" \/ (hpc'[h] \in UploadLocs /\ htask'[h] = htask[h]),
         hpc'[h] \in {"fail", "finishing"} => hend'[h] \in TerminalStates
  PROVE  IInv'
<1>0. htask[h] \in Id /\ op[htask[h]] = "upload"
  BY DEF IInv, HandlerInv, PointerInv, UploadInv
<1>1. hpc'[h] \notin DownloadLocs \cup {"spawn", "oom", "settle", "settle_oom"}
  BY DEF UploadLocs, DownloadLocs, StreamLocs
<1>2. Move(h)
  BY <1>0, <1>1 DEF Move, Undisturbed, IsActive, ActiveStates, TerminalStates
<1>3. \A x : x = h => PointerInv(x)'
  BY <1>0, <1>1 DEF Tame, PointerInv, SpawnInv, DownloadInv, UploadInv, OutcomeInv, UploadLocs, StreamLocs
<1> QED BY <1>2, <1>3, MoveKeeps

LEMMA FinishUploadFacts ==
  ASSUME IInv, NEW x \in Id, op[x] = "upload", NEW s \in TerminalStates,
         FinishUpload(x, s), UNCHANGED table
  PROVE  /\ Tame /\ completion' \in Id \cup {NoTask}
         /\ \A t \in Id : t # x => state'[t] = state[t]
<1>1. CASE IsActive(x)
  BY <1>1, UpdateIsTame DEF FinishUpload, table, Completed, IInv, TypeOK
<1>2. CASE ~IsActive(x)
  BY <1>2, SameIsTame DEF FinishUpload, table, IInv, TypeOK
<1> QED BY <1>1, <1>2

LEMMA StreamStep ==
  ASSUME IInv, NEW h \in Handlers,
         \/ StaleHandler(h)
         \/ StreamOpen(h) \/ StreamBegin(h) \/ StreamWrite(h) \/ StreamProgress(h)
         \/ StreamStop(h) \/ StreamDone(h) \/ StreamFail(h) \/ StreamFree(h)
         \/ FinishCheck(h) \/ FinishSettle(h)
  PROVE  IInv'
<1>0. /\ htask[h] \in Id /\ op[htask[h]] = "upload" /\ hpc[h] \in UploadLocs
      /\ hpc[h] \in {"fail", "finishing"} => hend[h] \in TerminalStates
  BY DEF IInv, HandlerInv, PointerInv, UploadInv, OutcomeInv, UploadLocs, StreamLocs,
         StaleHandler, StreamOpen, StreamBegin, StreamWrite, StreamProgress,
         StreamStop, StreamDone, StreamFail, StreamFree, FinishCheck, FinishSettle
<1>1. Tame /\ completion' \in Id \cup {NoTask} /\ (\A t \in Id : t # htask[h] => state'[t] = state[t])
  <2>1. CASE UNCHANGED <<nextId, op, path, state, reported, completion>>
    BY <2>1, SameIsTame DEF IInv, TypeOK
  <2>2. CASE StreamProgress(h)
    BY <1>0, <2>2, UpdateIsTame DEF StreamProgress, table, ActiveStates, IInv, TypeOK
  <2>3. CASE StreamFail(h) \/ FinishSettle(h)
    BY <1>0, <2>3, FinishUploadFacts DEF StreamFail, FinishSettle, table
  <2> QED
    BY <2>1, <2>2, <2>3
    DEF StaleHandler, StreamOpen, StreamBegin, StreamWrite, StreamStop, StreamDone,
        StreamFree, FinishCheck, table
<1>2. UNCHANGED <<cancel, reported, worker, pkg>> /\ streams' \in [Id -> Nat]
  BY <1>0 DEF IInv, TypeOK, table, pkg,
     StaleHandler, StreamOpen, StreamBegin, StreamWrite, StreamProgress,
     StreamStop, StreamDone, StreamFail, StreamFree, FinishCheck, FinishSettle
<1>3. /\ hpc' \in [Handlers -> Locs] /\ htask' \in [Handlers -> Id \cup {NoTask}]
      /\ hend' \in [Handlers -> Outcomes]
      /\ \A g \in Handlers : g # h => hpc'[g] = hpc[g] /\ htask'[g] = htask[g] /\ hend'[g] = hend[g]
      /\ hpc'[h] = "idle" \/ (hpc'[h] \in UploadLocs /\ htask'[h] = htask[h])
      /\ hpc'[h] \in {"fail", "finishing"} => hend'[h] \in TerminalStates
  BY DEF IInv, TypeOK, Locs, UploadLocs, DownloadLocs, StreamLocs, Outcomes, TerminalStates,
     Return, Goto, Decide, StaleHandler, StreamOpen, StreamBegin, StreamWrite, StreamProgress,
     StreamStop, StreamDone, StreamFail, StreamFree, FinishCheck, FinishSettle
<1> QED BY <1>0, <1>1, <1>2, <1>3, UploadMove

(* A handler that holds no task answers, checks, or finds an upload.       *)
LEMMA FreeHandlerMove ==
  ASSUME IInv, NEW h \in Handlers, Tame, Calm,
         hpc[h] \in {"idle", "checked", "fileop", "reply"},
         UNCHANGED <<cancel, reported, streams, completion, worker, pkg>>,
         \/ \E loc \in {"idle", "checked", "fileop"} : Goto(h, loc) /\ UNCHANGED <<htask, hend>>
         \/ Return(h)
         \/ \E t \in Id, loc \in {"found", "finish"} : op[t] = "upload" /\ Handle(h, loc, t)
  PROVE  IInv'
<1>1. /\ hpc' \in [Handlers -> Locs] /\ htask' \in [Handlers -> Id \cup {NoTask}]
      /\ hend' \in [Handlers -> Outcomes]
      /\ \A g \in Handlers : g # h => hpc'[g] = hpc[g] /\ htask'[g] = htask[g] /\ hend'[g] = hend[g]
      /\ \/ hpc'[h] \in {"idle", "checked", "fileop"}
         \/ hpc'[h] \in {"found", "finish"} /\ htask'[h] \in Id /\ op[htask'[h]] = "upload"
  BY DEF IInv, TypeOK, Locs, UploadLocs, DownloadLocs, StreamLocs, Outcomes, Return, Goto, Handle
<1>2. Move(h)
  BY <1>1 DEF Move, Calm, DownloadLocs, IInv, TypeOK
<1>3. \A x : x = h => PointerInv(x)'
  BY <1>1 DEF Tame, PointerInv, SpawnInv, DownloadInv, UploadInv, OutcomeInv, UploadLocs,
              DownloadLocs, StreamLocs
<1> QED BY <1>2, <1>3, MoveKeeps

LEMMA FreeHandlerStep ==
  ASSUME IInv, NEW h \in Handlers,
         \/ UploadCheck(h) \/ (\E t \in Id : UploadFind(h, t))
         \/ FileOpCheck(h) \/ FileOpDone(h) \/ Reply(h)
         \/ /\ hpc[h] = "checked"
            /\ state' = Reaped(reported) /\ Return(h)
            /\ UNCHANGED <<table, completion, worker, pkg>>
  PROVE  IInv'
<1>1. /\ hpc[h] \in {"idle", "checked", "fileop", "reply"}
      /\ UNCHANGED <<nextId, op, path, cancel, reported, streams, completion, worker, pkg>>
      /\ state' = Reaped(reported') \/ UNCHANGED state
      /\ \/ \E loc \in {"idle", "checked", "fileop"} : Goto(h, loc) /\ UNCHANGED <<htask, hend>>
         \/ Return(h)
         \/ \E t \in Id, loc \in {"found", "finish"} : op[t] = "upload" /\ Handle(h, loc, t)
  BY DEF UploadCheck, UploadFind, FileOpCheck, FileOpDone, Reply, table
<1>2. Tame /\ Calm
  BY <1>1, ReapIsTame, SameIsTame
<1> QED BY <1>1, <1>2, FreeHandlerMove

(* pthread_create() starts the thread of a task that has none, or not.     *)
LEMMA SpawnStep ==
  ASSUME IInv, NEW h \in Handlers, SpawnWorker(h)
  PROVE  IInv'
<1> DEFINE x == htask[h]
<1>0. /\ TypeOK /\ hpc[h] = "spawn" /\ x \in Id /\ op[x] \in BackgroundOps
      /\ state[x] = "queued" /\ wpc[x] = "none"
  BY DEF IInv, HandlerInv, PointerInv, SpawnInv, SpawnWorker
<1>1. /\ UNCHANGED <<table, completion, wend, pkg>>
      /\ hpc' \in [Handlers -> Locs] /\ htask' \in [Handlers -> Id \cup {NoTask}]
      /\ hend' \in [Handlers -> Outcomes] /\ hpc'[h] = "reply"
      /\ \A g \in Handlers : g # h => hpc'[g] = hpc[g] /\ htask'[g] = htask[g] /\ hend'[g] = hend[g]
  BY <1>0 DEF SpawnWorker, Goto, TypeOK, Locs, UploadLocs, DownloadLocs, StreamLocs, Outcomes
<1>2. /\ Tame
      /\ wpc' \in [Id -> WorkerLocs \cup {"none", "exit"}]
      /\ \A t \in Id : t # x => state'[t] = state[t] /\ wpc'[t] = wpc[t]
      /\ (wpc'[x] = "start" /\ state'[x] = "queued") \/ wpc'[x] = "none"
  <2>1. CASE wpc' = [wpc EXCEPT ![x] = "start"] /\ UNCHANGED state
    BY <1>0, <1>1, <2>1, SameIsTame DEF table, TypeOK, WorkerLocs
  <2>2. CASE TaskUpdate(x, "failed") /\ UNCHANGED wpc
    BY <1>0, <1>1, <2>2, UpdateIsTame DEF table, TypeOK, TerminalStates, BackgroundOps
  <2> QED BY <2>1, <2>2 DEF SpawnWorker
<1>3. TypeOK'
  BY <1>0, <1>1, <1>2, TameKeeps
  DEF TypeOK, Tame, State, Locs, UploadLocs, table, pkg
<1>4. WorkerInv'
  BY <1>0, <1>1, <1>2 DEF IInv, WorkerInv, WorkerLocs, IsActive, ActiveStates, table
<1>5. HandlerInv'
  <2> SUFFICES ASSUME NEW g \in Handlers PROVE PointerInv(g)'
    BY DEF HandlerInv
  <2>1. CASE g = h
    BY <1>1, <2>1
    DEF PointerInv, SpawnInv, DownloadInv, UploadInv, OutcomeInv, UploadLocs, StreamLocs,
        DownloadLocs
  <2>2. CASE g # h
    <3>1. PointerInv(g) /\ (hpc[g] = "spawn" => htask[g] # x)
      BY <1>0, <2>2 DEF IInv, HandlerInv, Unshared
    <3>2. SpawnInv(g)'
      BY <1>1, <1>2, <2>2, <3>1 DEF PointerInv, SpawnInv, table
    <3>3. DownloadInv(g)'
      BY <1>0, <1>1, <1>2, <2>2, <3>1 DEF PointerInv, DownloadInv, BackgroundOps, table
    <3>4. UploadInv(g)' /\ OutcomeInv(g)'
      BY <1>1, <2>2, <3>1 DEF PointerInv, UploadInv, OutcomeInv, table
    <3> QED BY <3>2, <3>3, <3>4 DEF PointerInv
  <2> QED BY <2>1, <2>2
<1>6. Unshared' /\ PkgInv'
  BY <1>1 DEF IInv, Unshared, PkgInv, DownloadLocs, table, pkg
<1> QED BY <1>2, <1>3, <1>4, <1>5, <1>6, TameKeeps DEF IInv

-------------------------------------------------------------------------------
(* Creating a task.  Nobody points to the new id yet, and whoever passed   *)
(* HasActive finds no active task but packages.                            *)

LEMMA InsertFacts ==
  ASSUME IInv, NEW o \in BackgroundOps \cup {"download", "upload"}, NEW s \in ActiveStates,
         Insert(o, s), ~HasActive, UNCHANGED <<completion, worker, pkg>>
  PROVE  /\ nextId \in Id /\ op[nextId] = "none"
         /\ op'[nextId] = o /\ state'[nextId] = s /\ wpc'[nextId] = "none"
         /\ \A t \in Id : t # nextId => op'[t] = op[t] /\ Undisturbed(t)
         /\ hpc' \in [Handlers -> Locs] /\ htask' \in [Handlers -> Id \cup {NoTask}]
            /\ hend' \in [Handlers -> Outcomes] => TypeOK'
         /\ Allocated' /\ WorkerInv' /\ PkgInv'
         /\ OneActiveBesidesUploads' /\ PkgPathsDistinct' /\ PkgResultReported'
<1>0. TypeOK /\ Allocated
  BY DEF IInv
<1>1. nextId \in Id /\ nextId' = nextId + 1 /\ op[nextId] = "none" /\ state[nextId] = "none"
  BY <1>0 DEF Insert, TypeOK, Allocated, Id
<1>2. /\ op' = [op EXCEPT ![nextId] = o]
      /\ op'[nextId] = o /\ \A t \in Id : t # nextId => op'[t] = op[t]
  BY <1>0, <1>1 DEF Insert, TypeOK
<1>3. /\ state' \in [Id -> State] /\ state'[nextId] = s
      /\ \A t \in Id : t # nextId =>
           \/ state'[t] = state[t]
           \/ state'[t] = "freed" /\ IsTerminal(t) /\ (op[t] = "pkg" => reported[t])
  <2>1. /\ Reaped(reported) \in [Id -> State]
        /\ \A t \in Id :
           \/ Reaped(reported)[t] = state[t]
           \/ Reaped(reported)[t] = "freed" /\ IsTerminal(t) /\ (op[t] = "pkg" => reported[t])
    BY <1>0, ReapedFacts
  <2>2. state' = [Reaped(reported) EXCEPT ![nextId] = s]
    BY DEF Insert
  <2> QED BY <1>1, <2>1, <2>2 DEF State
<1>4. UNCHANGED <<path, cancel, reported, streams>>
  BY DEF Insert
<1>5. \A t \in Id : t # nextId => Undisturbed(t)
  BY <1>3 DEF Undisturbed, IsActive, IsTerminal, ActiveStates, TerminalStates
<1>6. \A t \in Id : wpc[t] # "none" => t # nextId
  BY <1>1 DEF IInv, WorkerInv, BackgroundOps
<1>7. wpc'[nextId] = "none"
  BY <1>1, <1>6 DEF worker
<1>8. ASSUME hpc' \in [Handlers -> Locs], htask' \in [Handlers -> Id \cup {NoTask}],
             hend' \in [Handlers -> Outcomes]
      PROVE  TypeOK'
  <2>1. nextId' \in 1 .. MaxTasks + 1 /\ op' \in [Id -> {"none", "copy", "extract", "download", "upload", "pkg"}]
    BY <1>0, <1>1, <1>2, MaxTasksAssumption DEF TypeOK, Id, BackgroundOps
  <2>2. \A t \in Id : state'[t] = "none" <=> t >= nextId'
    <3> SUFFICES ASSUME NEW t \in Id PROVE state'[t] = "none" <=> t >= nextId'
      OBVIOUS
    <3>1. CASE t = nextId
      BY <1>1, <1>3, <3>1 DEF ActiveStates, Id
    <3>2. CASE t # nextId
      <4>1. t \in Int /\ nextId \in Int /\ (state[t] = "none" <=> t >= nextId)
        BY <1>0, <1>1 DEF TypeOK, Id
      <4>2. state'[t] = "none" <=> state[t] = "none"
        BY <1>3, <3>2 DEF IsTerminal, TerminalStates
      <4> QED BY <1>1, <3>2, <4>1, <4>2
    <3> QED BY <3>1, <3>2
  <2> QED BY <1>0, <1>3, <1>4, <1>8, <2>1, <2>2
          DEF TypeOK, State, Locs, UploadLocs, worker, pkg
<1>9. Allocated'
  <2> SUFFICES ASSUME NEW t \in Id PROVE op'[t] = "none" <=> t >= nextId'
    BY DEF Allocated
  <2>1. t \in Int /\ nextId \in Int /\ (op[t] = "none" <=> t >= nextId)
    BY <1>0, <1>1 DEF Allocated, Id
  <2> QED BY <1>1, <1>2, <2>1 DEF BackgroundOps
<1>10. WorkerInv'
  BY <1>2, <1>5, <1>6 DEF IInv, WorkerInv, WorkerLocs, Undisturbed, IsActive, BackgroundOps, worker
<1>11. PkgInv'
  BY <1>1, <1>2 DEF IInv, PkgInv, pkg
<1>12. \A t \in Id : t # nextId /\ state'[t] \in ActiveStates => op'[t] = "pkg" /\ IsActive(t)
  BY <1>2, <1>3 DEF HasActive, IsActive, ActiveStates
<1>13. OneActiveBesidesUploads'
  BY <1>12 DEF OneActiveBesidesUploads, IsActive
<1>14. PkgPathsDistinct'
  BY <1>2, <1>4, <1>12 DEF IInv, PkgPathsDistinct, IsActive, BackgroundOps
<1>15. PkgResultReported'
  BY <1>2, <1>3, <1>4 DEF IInv, PkgResultReported, ActiveStates
<1> QED BY <1>1, <1>2, <1>3, <1>5, <1>7, <1>8, <1>9, <1>10, <1>11, <1>13, <1>14, <1>15

(* A handler that inserts a task and goes on to its reply, or to start its *)
(* thread, disturbs no other handler.                                      *)
LEMMA InsertStep ==
  ASSUME IInv, NEW h \in Handlers,
         NEW o \in BackgroundOps \cup {"download", "upload"}, NEW s \in ActiveStates,
         Insert(o, s), ~HasActive, UNCHANGED <<completion, worker, pkg>>,
         hpc[h] \in {"idle", "checked"},
         \/ Handle(h, "reply", nextId)
         \/ o \in BackgroundOps /\ s = "queued" /\ Handle(h, "spawn", nextId)
  PROVE  IInv'
<1>0. TypeOK
  BY DEF IInv
<1>1. /\ nextId \in Id /\ op[nextId] = "none"
      /\ op'[nextId] = o /\ state'[nextId] = s /\ wpc'[nextId] = "none"
      /\ \A t \in Id : t # nextId => op'[t] = op[t] /\ Undisturbed(t)
  BY InsertFacts
<1>2. /\ hpc' \in [Handlers -> Locs] /\ htask' \in [Handlers -> Id \cup {NoTask}]
      /\ hend' \in [Handlers -> Outcomes]
      /\ \A g \in Handlers : g # h => hpc'[g] = hpc[g] /\ htask'[g] = htask[g] /\ hend'[g] = hend[g]
      /\ \/ hpc'[h] = "reply"
         \/ hpc'[h] = "spawn" /\ htask'[h] = nextId /\ o \in BackgroundOps /\ s = "queued"
  BY <1>0, <1>1 DEF TypeOK, Handle, Goto, Locs, UploadLocs, DownloadLocs,
                    StreamLocs, Outcomes
<1>3. \A g \in Handlers :
        hpc[g] \in DownloadLocs \cup UploadLocs \cup {"spawn", "oom"} =>
          htask[g] \in Id /\ op[htask[g]] # "none"
  BY DEF IInv, HandlerInv, PointerInv, SpawnInv, DownloadInv, UploadInv, BackgroundOps
<1>4. ASSUME NEW g \in Handlers
      PROVE  PointerInv(g)'
  <2>1. CASE g = h
    BY <1>1, <1>2, <2>1
    DEF PointerInv, SpawnInv, DownloadInv, UploadInv, OutcomeInv, UploadLocs, StreamLocs,
        DownloadLocs
  <2>2. CASE g # h
    <3>1. PointerInv(g) /\ (hpc[g] \in DownloadLocs \cup UploadLocs \cup {"spawn", "oom"} =>
                              htask[g] \in Id /\ htask[g] # nextId)
      BY <1>1, <1>3 DEF IInv, HandlerInv
    <3>2. SpawnInv(g)'
      BY <1>1, <1>2, <2>2, <3>1
      DEF PointerInv, SpawnInv, Undisturbed, IsActive, ActiveStates, BackgroundOps, worker
    <3>3. DownloadInv(g)'
      BY <1>1, <1>2, <2>2, <3>1
      DEF PointerInv, DownloadInv, Undisturbed, IsActive, ActiveStates
    <3>4. UploadInv(g)' /\ OutcomeInv(g)'
      BY <1>1, <1>2, <2>2, <3>1 DEF PointerInv, UploadInv, OutcomeInv
    <3> QED BY <3>2, <3>3, <3>4 DEF PointerInv
  <2> QED BY <2>1, <2>2
<1>5. Unshared'
  BY <1>1, <1>2, <1>3 DEF IInv, Unshared, DownloadLocs
<1>6. TypeOK' /\ Allocated' /\ WorkerInv' /\ PkgInv'
      /\ OneActiveBesidesUploads' /\ PkgPathsDistinct' /\ PkgResultReported'
  BY <1>2, InsertFacts
<1> QED BY <1>4, <1>5, <1>6 DEF IInv, HandlerInv

LEMMA HandlerStep ==
  ASSUME IInv, NEW h \in Handlers, Handler(h)
  PROVE  IInv'
<1>1. CASE Create(h)
  <2>1. PICK o \in Ops : CreateTask(h, o)
    BY <1>1 DEF Create
  <2>2. o \in BackgroundOps \cup {"download", "upload"} /\ (o # "download" => o \in BackgroundOps)
    BY <2>1 DEF CreateTask, BackgroundOps
  <2>3. /\ Insert(o, "queued") /\ ~HasActive /\ hpc[h] \in {"idle", "checked"}
        /\ UNCHANGED <<completion, worker, pkg>>
        /\ \/ Handle(h, "reply", nextId)
           \/ o \in BackgroundOps /\ "queued" = "queued" /\ Handle(h, "spawn", nextId)
    BY <2>1, <2>2 DEF CreateTask, GoOn
  <2>4. "queued" \in ActiveStates
    BY DEF ActiveStates
  <2> QED BY <2>2, <2>3, <2>4, InsertStep
<1>2. CASE SpawnWorker(h)
  BY <1>2, SpawnStep
<1>3. CASE Download(h)
  BY <1>3, DownloadStep
<1>4. CASE UploadPrepare(h)
  <2>1. CASE ~HasActive /\ Insert("upload", "running") /\ Handle(h, "reply", nextId)
    BY <1>4, <2>1, InsertStep DEF UploadPrepare, ActiveStates
  <2>2. CASE state' = Reaped(reported) /\ UNCHANGED table /\ Return(h)
    BY <1>4, <2>2, FreeHandlerStep DEF UploadPrepare
  <2> QED BY <1>4, <2>1, <2>2 DEF UploadPrepare
<1>5. CASE Upload(h) /\ ~UploadPrepare(h)
  BY <1>5, FreeHandlerStep, StreamStep DEF Upload
<1>6. CASE FileOp(h) \/ Reply(h)
  BY <1>6, FreeHandlerStep DEF FileOp
<1> QED BY <1>1, <1>2, <1>3, <1>4, <1>5, <1>6 DEF Handler

-------------------------------------------------------------------------------
(* The requests that belong to no handler's task, and the PKG thread.      *)

LEMMA AsideKeeps ==
  ASSUME IInv, Tame, UNCHANGED <<streams, completion, worker, handler>>,
         cancel' \in [Id -> BOOLEAN], reported' \in [Id -> BOOLEAN],
         pkgpc' \in {"off", "look", "wait", "install"}, pkgTask' \in Id \cup {NoTask},
         PkgInv',
         \A t \in Id : \/ Undisturbed(t)
                       \/ op[t] = "pkg"
                       \/ op[t] = "download" /\ state[t] = "queued"
  PROVE  IInv'
<1>1. TypeOK'
  BY TameKeeps DEF IInv, Tame, TypeOK, State, worker, handler
<1>2. WorkerInv'
  BY DEF Tame, IInv, WorkerInv, WorkerLocs, Undisturbed, IsActive, BackgroundOps, worker
<1>3. ASSUME NEW g \in Handlers
      PROVE  PointerInv(g)'
  <2>1. PointerInv(g)
    BY DEF IInv, HandlerInv
  <2>2. SpawnInv(g)'
    BY <2>1 DEF Tame, PointerInv, SpawnInv, Undisturbed, IsActive, ActiveStates,
                BackgroundOps, worker, handler
  <2>3. DownloadInv(g)'
    BY <2>1 DEF Tame, PointerInv, DownloadInv, Undisturbed, IsActive, ActiveStates,
                TerminalStates, handler
  <2> QED BY <2>1, <2>2, <2>3 DEF Tame, PointerInv, UploadInv, OutcomeInv, handler
<1>4. Unshared'
  BY DEF IInv, Unshared, handler
<1> QED BY <1>1, <1>2, <1>3, <1>4, TameKeeps DEF IInv, HandlerInv

LEMMA EnqueuePkgStep ==
  ASSUME IInv, NEW S \in SUBSET Paths, EnqueuePkg(S)
  PROVE  IInv'
<1> DEFINE New == {p \in S : ~ActivePkgPath(p)}
           ids == nextId .. nextId + Cardinality(New) - 1
<1>0. TypeOK /\ Allocated
  BY DEF IInv
<1>1. /\ New # {} /\ ids \subseteq Id /\ nextId' = nextId + Cardinality(New)
      /\ op' = [t \in Id |-> IF t \in ids THEN "pkg" ELSE op[t]]
      /\ state' = [t \in Id |-> IF t \in ids THEN "queued" ELSE state[t]]
      /\ pkgpc' = IF pkgpc \in {"off", "wait"} THEN "look" ELSE pkgpc
      /\ UNCHANGED <<cancel, reported, streams, completion, worker, handler, pkgTask>>
  BY DEF EnqueuePkg
<1>2. PICK f \in [ids -> New] :
        /\ \A p \in New : \E t \in ids : f[t] = p
        /\ path' = [t \in Id |-> IF t \in ids THEN f[t] ELSE path[t]]
  BY DEF EnqueuePkg
<1>3. Cardinality(New) \in Nat \ {0}
  <2>1. IsFiniteSet(New)
    BY FiniteAssumption, FS_Subset
  <2> QED BY <1>1, <2>1, FS_CardinalityType, FS_EmptySet
<1>4. nextId \in Id /\ nextId' \in 1 .. MaxTasks + 1
  <2>1. nextId \in Nat \ {0} /\ nextId \in ids /\ nextId + Cardinality(New) - 1 \in ids
    BY <1>0, <1>3, MaxTasksAssumption DEF TypeOK
  <2> QED BY <1>1, <1>3, <2>1, MaxTasksAssumption DEF Id
<1>5. \A t \in Id : /\ t \in ids <=> t >= nextId /\ t < nextId'
                    /\ t \in ids => op[t] = "none" /\ state[t] = "none"
  BY <1>0, <1>1, <1>3, <1>4 DEF TypeOK, Allocated, Id
<1> HIDE DEF New
<1>6. \A t, u \in ids : t # u => f[t] # f[u]
  <2>1. f \in Surjection(ids, New)
    BY <1>2, Fun_IsSurj
  <2>2. IsFiniteSet(ids) /\ Cardinality(ids) = Cardinality(New)
    <3>1. PICK b \in Int : b = nextId + Cardinality(New) - 1
      BY <1>3, <1>4 DEF Id
    <3>2. ids = nextId .. b /\ nextId \in Int /\ nextId <= b
      BY <1>3, <1>4, <3>1 DEF Id
    <3>3. IsFiniteSet(nextId .. b) /\ Cardinality(nextId .. b) = b - nextId + 1
      BY <3>2, FS_Interval
    <3>4. b - nextId + 1 = Cardinality(New)
      BY <1>3, <3>1, <3>2
    <3> QED BY <3>2, <3>3, <3>4
  <2>3. f \in Injection(ids, New)
    BY <2>1, <2>2, FS_SurjSameCardinalityImpliesInj
  <2> QED BY <2>3, Fun_InjectionProperties
<1>7. \A t \in Id : /\ op'[t] = (IF t \in ids THEN "pkg" ELSE op[t])
                    /\ state'[t] = (IF t \in ids THEN "queued" ELSE state[t])
                    /\ path'[t] = (IF t \in ids THEN f[t] ELSE path[t])
                    /\ t \in ids => f[t] \in New
  BY <1>1, <1>2
<1>8. /\ state' \in [Id -> State] /\ path' \in [Id -> Paths \cup {"none"}]
      /\ op' \in [Id -> {"none", "copy", "extract", "download", "upload", "pkg"}]
  BY <1>0, <1>1, <1>2 DEF TypeOK, State, ActiveStates, New
<1>9. pkgpc' \in {"off", "look", "wait", "install"} /\ (pkgpc' = "install" => pkgpc = "install")
  BY <1>0, <1>1 DEF TypeOK
<1> HIDE DEF ids
<1>10. \A t \in Id : state'[t] = "none" <=> t >= nextId'
  <2> SUFFICES ASSUME NEW t \in Id PROVE state'[t] = "none" <=> t >= nextId'
    OBVIOUS
  <2>1. t \in Int /\ nextId \in Int /\ nextId' \in Int /\ nextId < nextId'
    BY <1>1, <1>3, <1>4 DEF Id
  <2> QED BY <1>0, <1>5, <1>7, <2>1 DEF TypeOK
<1>11. TypeOK'
  BY <1>0, <1>1, <1>4, <1>8, <1>9, <1>10 DEF TypeOK, State, worker, handler
<1>12. Allocated'
  <2> SUFFICES ASSUME NEW t \in Id PROVE op'[t] = "none" <=> t >= nextId'
    BY DEF Allocated
  <2>1. t \in Int /\ nextId \in Int /\ nextId' \in Int /\ nextId < nextId'
    BY <1>1, <1>3, <1>4 DEF Id
  <2> QED BY <1>0, <1>5, <1>7, <2>1 DEF Allocated
<1>13. \A t \in Id : op[t] # "none" => op'[t] = op[t] /\ state'[t] = state[t]
  BY <1>5, <1>7
<1>14. WorkerInv'
  BY <1>1, <1>13 DEF IInv, WorkerInv, WorkerLocs, IsActive, BackgroundOps, worker
<1>15. HandlerInv'
  BY <1>1, <1>13 DEF IInv, HandlerInv, PointerInv, SpawnInv, DownloadInv, UploadInv,
                     OutcomeInv, BackgroundOps, worker, handler
<1>16. Unshared' /\ PkgInv'
  BY <1>1, <1>9, <1>13 DEF IInv, Unshared, PkgInv, handler
<1>17. OneActiveBesidesUploads'
  BY <1>7 DEF IInv, OneActiveBesidesUploads, IsActive
<1>18. PkgPathsDistinct'
  <2> SUFFICES ASSUME NEW t \in Id, NEW u \in Id, t # u, op'[t] = "pkg", op'[u] = "pkg",
                      state'[t] \in ActiveStates, state'[u] \in ActiveStates
               PROVE  path'[t] # path'[u]
    BY DEF PkgPathsDistinct, IsActive
  <2>1. CASE t \in ids /\ u \in ids
    BY <1>6, <1>7, <2>1
  <2>2. CASE t \notin ids /\ u \notin ids
    BY <1>7, <2>2 DEF IInv, PkgPathsDistinct, IsActive
  <2>3. ASSUME NEW a \in Id, NEW b \in Id, a \in ids, b \notin ids,
               op'[b] = "pkg", state'[b] \in ActiveStates
        PROVE  path'[a] # path'[b]
    <3>1. path'[a] \in New /\ path'[b] = path[b] /\ ActivePkgPath(path[b])
      BY <1>7, <2>3 DEF ActivePkgPath, IsActive
    <3> QED BY <3>1 DEF New
  <2> QED BY <2>1, <2>2, <2>3
<1>19. PkgResultReported'
  BY <1>1, <1>5, <1>7 DEF IInv, PkgResultReported
<1> QED BY <1>11, <1>12, <1>14, <1>15, <1>16, <1>17, <1>18, <1>19 DEF IInv

LEMMA ClientStep ==
  ASSUME IInv, Client
  PROVE  IInv'
<1>0. TypeOK
  BY DEF IInv
<1>1. CASE CreateRefused
  <2>1. Tame /\ Calm
    BY <1>1, ReapIsTame DEF CreateRefused, table
  <2> QED BY <1>0, <1>1, <2>1, AsideKeeps DEF CreateRefused, Calm, IInv, TypeOK, Tame, PkgInv, table, pkg
<1>2. ASSUME NEW t \in Id, ApiCancel(t)
      PROVE  IInv'
  <2>1. state' = [state EXCEPT ![t] = IF op[t] = "download" /\ @ = "queued" THEN "canceled" ELSE @]
    BY <1>2 DEF ApiCancel
  <2>2. /\ state' \in [Id -> State]
        /\ \A u \in Id : state'[u] = IF u = t /\ op[u] = "download" /\ state[u] = "queued"
                                     THEN "canceled" ELSE state[u]
    BY <1>0, <2>1 DEF TypeOK, State, TerminalStates
  <2>3. Tame
    BY <1>2, <2>2 DEF ApiCancel, Tame, IsActive, ActiveStates
  <2>4. \A u \in Id : Undisturbed(u) \/ (op[u] = "download" /\ state[u] = "queued")
    BY <2>2 DEF Undisturbed
  <2>5. cancel' \in [Id -> BOOLEAN]
    BY <1>0, <1>2 DEF ApiCancel, TypeOK
  <2> QED BY <1>0, <1>2, <2>3, <2>4, <2>5, AsideKeeps DEF ApiCancel, IInv, TypeOK, PkgInv, pkg
<1>3. CASE ApiTasks
  <2>1. reported' \in [Id -> BOOLEAN] /\ \A t \in Id : reported[t] => reported'[t]
    BY <1>0, <1>3 DEF ApiTasks, TypeOK, IsTerminal
  <2>2. Tame /\ Calm
    BY <1>3, <2>1, ReapIsTame DEF ApiTasks
  <2> QED BY <1>0, <1>3, <2>1, <2>2, AsideKeeps DEF ApiTasks, Calm, IInv, TypeOK, PkgInv, pkg
<1>4. CASE \E S \in SUBSET Paths : EnqueuePkg(S)
  BY <1>4, EnqueuePkgStep
<1> QED BY <1>1, <1>2, <1>3, <1>4 DEF Client

LEMMA PkgStep ==
  ASSUME IInv, PkgWorker \/ SpuriousPkgWakeup
  PROVE  IInv'
<1>0. TypeOK
  BY DEF IInv
<1>1. CASE PkgWait \/ SpuriousPkgWakeup
  <2>1. Tame /\ Calm
    BY <1>1, SameIsTame DEF PkgWait, SpuriousPkgWakeup, table
  <2> QED BY <1>0, <1>1, <2>1, AsideKeeps
          DEF PkgWait, SpuriousPkgWakeup, Calm, TypeOK, PkgInv, table
<1>2. CASE PkgTake
  <2>1. PICK t \in QueuedPkgs : TaskUpdate(t, "running") /\ pkgTask' = t
    BY <1>2 DEF PkgTake
  <2>2. t \in Id /\ op[t] = "pkg" /\ IsActive(t)
    BY <2>1 DEF QueuedPkgs, IsActive, ActiveStates
  <2>3. /\ Tame
        /\ \A u \in Id : state'[u] = IF u = t /\ state[u] # "freed" THEN "running" ELSE state[u]
    BY <1>2, <2>1, <2>2, UpdateIsTame DEF PkgTake, ActiveStates, table
  <2>4. \A u \in Id : Undisturbed(u) \/ op[u] = "pkg"
    BY <2>2, <2>3 DEF Undisturbed
  <2> QED BY <1>0, <1>2, <2>1, <2>2, <2>3, <2>4, AsideKeeps DEF PkgTake, TypeOK, PkgInv, Tame, table
<1>3. CASE PkgInstall
  <2>1. PICK s \in {"done", "failed"} : TaskUpdate(pkgTask, s)
    BY <1>3 DEF PkgInstall
  <2>2. pkgTask \in Id /\ op[pkgTask] = "pkg"
    BY <1>3 DEF IInv, PkgInv, PkgInstall
  <2>3. /\ Tame
        /\ \A u \in Id : state'[u] = IF u = pkgTask /\ state[u] # "freed" THEN s ELSE state[u]
    BY <1>3, <2>1, <2>2, UpdateIsTame DEF PkgInstall, TerminalStates, table
  <2>4. \A u \in Id : Undisturbed(u) \/ op[u] = "pkg"
    BY <2>2, <2>3 DEF Undisturbed
  <2> QED BY <1>0, <1>3, <2>3, <2>4, AsideKeeps DEF PkgInstall, TypeOK, PkgInv, table
<1> QED BY <1>1, <1>2, <1>3 DEF PkgWorker

LEMMA InitIInv == Init => IInv
<1> SUFFICES ASSUME Init PROVE IInv
  OBVIOUS
<1>1. TypeOK
  BY MaxTasksAssumption DEF Init, TypeOK, Id, Outcomes, NoTask
<1>2. Allocated
  BY DEF Init, Allocated, Id
<1>3. WorkerInv /\ HandlerInv /\ Unshared /\ PkgInv
  BY DEF Init, WorkerInv, WorkerLocs, HandlerInv, PointerInv, SpawnInv, DownloadInv, UploadInv,
         OutcomeInv, Unshared, PkgInv, DownloadLocs, UploadLocs, StreamLocs
<1>4. OneActiveBesidesUploads /\ PkgPathsDistinct /\ PkgResultReported
  BY DEF Init, OneActiveBesidesUploads, PkgPathsDistinct, PkgResultReported, IsActive, ActiveStates
<1> QED BY <1>1, <1>2, <1>3, <1>4 DEF IInv

LEMMA NextIInv == IInv /\ [Next]_vars => IInv'
<1> SUFFICES ASSUME IInv, [Next]_vars PROVE IInv'
  OBVIOUS
<1>1. CASE \E h \in Handlers : Handler(h)
  BY <1>1, HandlerStep
<1>2. CASE \E t \in Id : Worker(t)
  BY <1>2, WorkerStep
<1>3. CASE Client
  BY <1>3, ClientStep
<1>4. CASE PkgWorker \/ SpuriousPkgWakeup
  BY <1>4, PkgStep
<1>5. CASE UNCHANGED vars
  <2>1. Tame /\ Calm
    BY <1>5, SameIsTame DEF vars, table
  <2> QED BY <1>5, <2>1, AsideKeeps DEF IInv, TypeOK, PkgInv, Calm, vars, table, pkg
<1> QED BY <1>1, <1>2, <1>3, <1>4, <1>5 DEF Next

-------------------------------------------------------------------------------
(* How the state of one task changes in one step.                          *)

Revives(t) ==
  /\ op[t] = "upload" /\ state'[t] = "running"
  /\ \E h \in Handlers : hpc[h] = "wrote" /\ htask[h] = t

Changes(t) ==
  \/ state'[t] = state[t]
  \/ state'[t] = "freed" /\ IsTerminal(t) /\ streams[t] = 0
  \/ state[t] = "none" /\ state'[t] \in ActiveStates
  \/ IsActive(t) /\ state'[t] \in ActiveStates \cup TerminalStates
  \/ op[t] \in {"download", "pkg"} /\ state'[t] \in TerminalStates
  \/ Revives(t)

LEMMA ReapChanges ==
  ASSUME IInv, NEW rep, state' = Reaped(rep)
  PROVE  \A t \in Id : Changes(t)
  BY ReapedFacts DEF IInv, Changes

(* A stored state is one of these: the holder of an active task stores it, *)
(* a download or a package takes its outcome, or a stream stores RUNNING.  *)
LEMMA UpdateChanges ==
  ASSUME IInv, NEW x \in Id, NEW s \in ActiveStates \cup TerminalStates, TaskUpdate(x, s),
         \/ IsActive(x)
         \/ op[x] \in {"download", "pkg"} /\ s \in TerminalStates
         \/ /\ op[x] = "upload" /\ s = "running"
            /\ \E h \in Handlers : hpc[h] = "wrote" /\ htask[h] = x
  PROVE  \A t \in Id : Changes(t)
<1>1. \A t \in Id : state'[t] = IF t = x /\ state[t] # "freed" THEN s ELSE state[t]
  BY TaskUpdateFacts DEF IInv
<1> QED BY <1>1 DEF Changes, Revives

LEMMA HandlerChanges ==
  ASSUME IInv, NEW h \in Handlers, Handler(h)
  PROVE  \A t \in Id : Changes(t)
<1>0. TypeOK /\ PointerInv(h)
  BY DEF IInv, HandlerInv
<1>1. ASSUME NEW o, NEW s \in ActiveStates, Insert(o, s)
      PROVE  \A t \in Id : Changes(t)
  <2>1. nextId \in Id /\ state[nextId] = "none" /\ state' = [Reaped(reported) EXCEPT ![nextId] = s]
    BY <1>0, <1>1 DEF Insert, TypeOK, Id
  <2>2. /\ Reaped(reported) \in [Id -> State]
        /\ \A t \in Id :
           \/ Reaped(reported)[t] = state[t]
           \/ Reaped(reported)[t] = "freed" /\ IsTerminal(t) /\ streams[t] = 0
    BY <1>0, ReapedFacts
  <2>3. \A t \in Id : state'[t] = IF t = nextId THEN s ELSE Reaped(reported)[t]
    BY <2>1, <2>2
  <2> QED BY <2>1, <2>2, <2>3 DEF Changes
<1>2. ASSUME UNCHANGED state
      PROVE  \A t \in Id : Changes(t)
  BY <1>2 DEF Changes
<1>3. CASE Create(h)
  <2>1. PICK o \in Ops : Insert(o, "queued")
    BY <1>3 DEF Create, CreateTask
  <2> QED BY <2>1, <1>1 DEF ActiveStates
<1>4. CASE SpawnWorker(h)
  <2>1. htask[h] \in Id /\ IsActive(htask[h])
    BY <1>0, <1>4 DEF SpawnWorker, PointerInv, SpawnInv, IsActive, ActiveStates
  <2> QED BY <1>2, <1>4, <2>1, UpdateChanges DEF SpawnWorker, TerminalStates
<1>5. CASE Download(h)
  <2>1. ASSUME NEW t \in Id, DownloadClaim(h, t)
        PROVE  \A u \in Id : Changes(u)
    BY <2>1, UpdateChanges DEF DownloadClaim, IsActive, ActiveStates
  <2>2. CASE hpc[h] \in DownloadLocs
    <3>1. htask[h] \in Id /\ op[htask[h]] = "download" /\ IsActive(htask[h])
          /\ (hpc[h] \in {"settle", "settle_oom"} => hend[h] \in TerminalStates)
      BY <1>0, <2>2 DEF PointerInv, DownloadInv, OutcomeInv, IsActive, ActiveStates
    <3>2. CASE DownloadPrepare(h) \/ DownloadRead(h)
      BY <3>1, <3>2, UpdateChanges DEF DownloadPrepare, DownloadRead, ActiveStates
    <3>3. CASE DownloadSettle(h)
      BY <3>1, <3>3, UpdateChanges DEF DownloadSettle
    <3>4. CASE DownloadClose(h)
      BY <1>2, <3>4 DEF DownloadClose
    <3>5. ~DownloadOom(h)
      BY <2>2 DEF DownloadOom, DownloadLocs
    <3> QED BY <1>5, <2>1, <3>2, <3>3, <3>4, <3>5 DEF Download
  <2>3. CASE DownloadOom(h)
    <3>1. htask[h] \in Id /\ op[htask[h]] = "download"
      BY <1>0, <2>3 DEF DownloadOom, PointerInv, DownloadInv
    <3> QED BY <2>3, <3>1, UpdateChanges DEF DownloadOom, TerminalStates
  <2> QED BY <1>5, <2>1, <2>2, <2>3
          DEF Download, DownloadPrepare, DownloadRead, DownloadSettle, DownloadClose, DownloadLocs
<1>6. CASE Upload(h)
  <2>1. CASE UploadCheck(h) \/ UploadPrepare(h)
    BY <1>1, <2>1, ReapChanges DEF UploadCheck, UploadPrepare, ActiveStates
  <2>2. CASE StreamProgress(h)
    <3>1. htask[h] \in Id /\ op[htask[h]] = "upload" /\ hpc[h] = "wrote"
      BY <1>0, <2>2 DEF StreamProgress, PointerInv, UploadInv, UploadLocs, StreamLocs
    <3> QED BY <2>2, <3>1, UpdateChanges DEF StreamProgress, ActiveStates
  <2>3. CASE StreamFail(h) \/ FinishSettle(h)
    <3>1. htask[h] \in Id /\ hend[h] \in TerminalStates
      BY <1>0, <2>3 DEF StreamFail, FinishSettle, PointerInv, UploadInv, OutcomeInv, UploadLocs,
                        StreamLocs
    <3> QED BY <1>2, <2>3, <3>1, UpdateChanges DEF StreamFail, FinishSettle, FinishUpload
  <2> QED BY <1>2, <1>6, <2>1, <2>2, <2>3
          DEF Upload, UploadFind, StaleHandler, StreamOpen, StreamBegin, StreamWrite,
              StreamStop, StreamDone, StreamFree, FinishCheck
<1>7. CASE FileOp(h) \/ Reply(h)
  BY <1>2, <1>7 DEF FileOp, FileOpCheck, FileOpDone, Reply
<1> QED BY <1>3, <1>4, <1>5, <1>6, <1>7 DEF Handler

LEMMA StateChanges ==
  ASSUME IInv, [Next]_vars
  PROVE  \A t \in Id : Changes(t)
<1>0. TypeOK
  BY DEF IInv
<1>1. ASSUME NEW h \in Handlers, Handler(h)
      PROVE  \A t \in Id : Changes(t)
  BY <1>1, HandlerChanges
<1>2. ASSUME NEW x \in Id, Worker(x)
      PROVE  \A t \in Id : Changes(t)
  <2>1. IsActive(x) /\ (wpc[x] = "settle" => wend[x] \in TerminalStates)
    BY <1>2 DEF IInv, WorkerInv, Worker, WorkerStart, WorkerDone, WorkerCanceled, WorkerFailed,
           WorkerStuck, WorkerRecheck, WorkerSettle, WorkerLocs
  <2>2. UNCHANGED state \/ \E s \in ActiveStates \cup TerminalStates : TaskUpdate(x, s)
    BY <1>2, <2>1 DEF Worker, WorkerStart, WorkerDone, WorkerCanceled, WorkerFailed,
           WorkerStuck, WorkerRecheck, WorkerSettle, ActiveStates, TerminalStates
  <2> QED BY <2>1, <2>2, UpdateChanges DEF Changes
<1>3. CASE Client
  <2>1. CASE CreateRefused \/ ApiTasks
    BY <2>1, ReapChanges DEF CreateRefused, ApiTasks
  <2>2. ASSUME NEW x \in Id, ApiCancel(x)
        PROVE  \A t \in Id : Changes(t)
    <3>1. state' = [state EXCEPT ![x] = IF op[x] = "download" /\ @ = "queued" THEN "canceled" ELSE @]
      BY <2>2 DEF ApiCancel
    <3>2. \A t \in Id : state'[t] = state[t] \/ (IsActive(t) /\ state'[t] = "canceled")
      BY <1>0, <3>1 DEF TypeOK, IsActive, ActiveStates
    <3> QED BY <3>2 DEF Changes, TerminalStates
  <2>3. ASSUME NEW S \in SUBSET Paths, EnqueuePkg(S)
        PROVE  \A t \in Id : Changes(t)
    <3>1. PICK n \in Nat :
             state' = [t \in Id |-> IF t \in nextId .. nextId + n - 1 THEN "queued" ELSE state[t]]
      <4>1. \A T \in SUBSET S : Cardinality(T) \in Nat
        BY FiniteAssumption, FS_Subset, FS_CardinalityType
      <4>2. Cardinality({p \in S : ~ActivePkgPath(p)}) \in Nat
        BY <4>1
      <4> QED BY <2>3, <4>2 DEF EnqueuePkg
    <3>2. \A t \in Id : state'[t] = state[t] \/ (state[t] = "none" /\ state'[t] = "queued")
      BY <1>0, <3>1 DEF TypeOK, Id
    <3> QED BY <3>2 DEF Changes, ActiveStates
  <2> QED BY <1>3, <2>1, <2>2, <2>3 DEF Client
<1>4. CASE PkgWorker \/ SpuriousPkgWakeup
  <2>1. CASE PkgWait \/ SpuriousPkgWakeup
    BY <2>1 DEF PkgWait, SpuriousPkgWakeup, Changes
  <2>2. CASE PkgTake
    <3>1. PICK t \in QueuedPkgs : TaskUpdate(t, "running")
      BY <2>2 DEF PkgTake
    <3> QED BY <3>1, UpdateChanges DEF QueuedPkgs, IsActive, ActiveStates
  <2>3. CASE PkgInstall
    BY <2>3, UpdateChanges DEF PkgInstall, IInv, PkgInv, TerminalStates
  <2> QED BY <1>4, <2>1, <2>2, <2>3 DEF PkgWorker
<1>5. CASE UNCHANGED vars
  BY <1>5 DEF vars, Changes
<1> QED BY <1>1, <1>2, <1>3, <1>4, <1>5 DEF Next

-------------------------------------------------------------------------------
(* active_streams.                                                         *)

OpenOn(t) == {h \in Handlers : hpc[h] \in StreamLocs /\ htask[h] = t}

StreamInv == StreamsCounted /\ StreamTaskAlive

(* Handler h neither opens nor closes a stream.                            *)
SameStream(h) ==
  \/ hpc[h] \in StreamLocs /\ hpc'[h] \in StreamLocs /\ htask'[h] = htask[h]
  \/ hpc[h] \notin StreamLocs /\ hpc'[h] \notin StreamLocs

Others(h) == \A g \in Handlers : g # h => hpc'[g] = hpc[g] /\ htask'[g] = htask[g]

(* Every handler step but the opening and the closing of a stream.         *)
LEMMA HandlerStreams ==
  ASSUME IInv, NEW h \in Handlers, Handler(h), ~StreamOpen(h), ~StreamFree(h)
  PROVE  Others(h) /\ SameStream(h) /\ streams' = streams
<1>0. /\ hpc \in [Handlers -> Locs] /\ htask \in [Handlers -> Id \cup {NoTask}]
  BY DEF IInv, TypeOK, Locs, UploadLocs
<1>1. CASE Create(h)
  BY <1>0, <1>1 DEF Create, CreateTask, GoOn, Insert, Handle, Goto, Others, SameStream, StreamLocs
<1>2. CASE SpawnWorker(h) \/ Reply(h) \/ FileOp(h)
  BY <1>0, <1>2 DEF SpawnWorker, Reply, FileOp, FileOpCheck, FileOpDone, Return, Goto, table, Others,
                    SameStream, StreamLocs
<1>3. CASE Download(h)
  <2>1. ASSUME NEW t \in Id, DownloadClaim(h, t)
        PROVE  Others(h) /\ SameStream(h) /\ streams' = streams
    BY <1>0, <2>1 DEF DownloadClaim, Handle, Goto, table, Others, SameStream, StreamLocs
  <2>2. CASE DownloadPrepare(h)
    BY <1>0, <2>2 DEF DownloadPrepare, Decide, Goto, table, Others, SameStream, StreamLocs
  <2>3. CASE DownloadRead(h)
    BY <1>0, <2>3 DEF DownloadRead, Goto, table, Others, SameStream, StreamLocs
  <2>4. CASE DownloadClose(h)
    BY <1>0, <2>4 DEF DownloadClose, Decide, Goto, table, Others, SameStream, StreamLocs
  <2>5. CASE DownloadSettle(h) \/ DownloadOom(h)
    BY <1>0, <2>5 DEF DownloadSettle, DownloadOom, Return, Goto, table, Others, SameStream, StreamLocs
  <2> QED BY <1>3, <2>1, <2>2, <2>3, <2>4, <2>5 DEF Download
<1>4. CASE Upload(h)
  <2>1. CASE UploadCheck(h) \/ UploadPrepare(h)
    BY <1>0, <2>1 DEF UploadCheck, UploadPrepare, Insert, Handle, Return, Goto, table, Others, SameStream,
                      StreamLocs
  <2>2. ASSUME NEW t \in Id, UploadFind(h, t)
        PROVE  Others(h) /\ SameStream(h) /\ streams' = streams
    BY <1>0, <2>2 DEF UploadFind, Handle, Goto, table, Others, SameStream, StreamLocs
  <2>3. CASE StreamBegin(h) \/ StreamWrite(h) \/ StreamProgress(h) \/ StreamStop(h)
             \/ StreamDone(h) \/ StreamFail(h)
    BY <1>0, <2>3 DEF StreamBegin, StreamWrite, StreamProgress, StreamStop, StreamDone, StreamFail,
                      Decide, Goto, table, Others, SameStream, StreamLocs
  <2>4. CASE StaleHandler(h) \/ FinishCheck(h) \/ FinishSettle(h)
    BY <1>0, <2>4 DEF StaleHandler, FinishCheck, FinishSettle, Return, Decide, Goto, table, Others,
                      SameStream, StreamLocs
  <2> QED BY <1>4, <2>1, <2>2, <2>3, <2>4 DEF Upload
<1> QED BY <1>1, <1>2, <1>3, <1>4 DEF Handler

(* A task with a stream on it is counted, and so is not reaped.            *)
LEMMA OpenIsCounted ==
  ASSUME IInv, StreamsCounted, NEW h \in Handlers, hpc[h] \in StreamLocs
  PROVE  htask[h] \in Id /\ streams[htask[h]] > 0
<1>1. htask[h] \in Id
  BY DEF IInv, HandlerInv, PointerInv, UploadInv, UploadLocs
<1>2. IsFiniteSet(OpenOn(htask[h])) /\ h \in OpenOn(htask[h])
  BY FiniteAssumption, FS_Subset DEF OpenOn
<1>3. Cardinality(OpenOn(htask[h])) \in Nat /\ Cardinality(OpenOn(htask[h])) # 0
  BY <1>2, FS_CardinalityType, FS_EmptySet
<1> QED BY <1>1, <1>3 DEF StreamsCounted, OpenOn

LEMMA CountKept ==
  ASSUME StreamsCounted, streams' = streams,
         \A g \in Handlers : SameStream(g)
  PROVE  StreamsCounted'
<1> SUFFICES ASSUME NEW t \in Id
             PROVE  streams'[t] = Cardinality(OpenOn(t)')
  BY DEF StreamsCounted, OpenOn
<1>1. OpenOn(t)' = OpenOn(t)
  BY DEF OpenOn, SameStream
<1>2. streams[t] = Cardinality(OpenOn(t))
  BY DEF StreamsCounted, OpenOn
<1> QED BY <1>1, <1>2

LEMMA NextStreamInv == IInv /\ StreamInv /\ [Next]_vars => StreamInv'
<1> SUFFICES ASSUME IInv, StreamInv, [Next]_vars PROVE StreamInv'
  OBVIOUS
<1>0. TypeOK /\ StreamsCounted /\ StreamTaskAlive
  BY DEF IInv, StreamInv
<1>1. StreamsCounted'
  <2>1. ASSUME NEW h \in Handlers, StreamOpen(h) \/ StreamFree(h)
        PROVE  StreamsCounted'
    <3> DEFINE x == htask[h]
    <3>1. x \in Id /\ Others(h)
      BY <1>0, <2>1
      DEF IInv, HandlerInv, PointerInv, UploadInv, UploadLocs, StreamLocs, Others, TypeOK,
          StreamOpen, StreamFree, Goto, Return
    <3>2. \A t \in Id : streams[t] = Cardinality(OpenOn(t)) /\ IsFiniteSet(OpenOn(t))
      BY <1>0, FiniteAssumption, FS_Subset DEF StreamsCounted, OpenOn
    <3>3. CASE StreamOpen(h)
      <4>1. /\ hpc[h] \notin StreamLocs /\ hpc'[h] \in StreamLocs /\ htask'[h] = x
            /\ streams' = [streams EXCEPT ![x] = @ + 1]
        BY <1>0, <3>3 DEF StreamOpen, Goto, TypeOK, StreamLocs
      <4>2. \A t \in Id : OpenOn(t)' = IF t = x THEN OpenOn(t) \cup {h} ELSE OpenOn(t)
        BY <3>1, <4>1 DEF OpenOn, Others
      <4>3. h \notin OpenOn(x) /\ Cardinality(OpenOn(x) \cup {h}) = Cardinality(OpenOn(x)) + 1
        BY <3>1, <3>2, <4>1, FS_AddElement DEF OpenOn
      <4>4. \A t \in Id : streams'[t] = IF t = x THEN streams[t] + 1 ELSE streams[t]
        BY <1>0, <4>1 DEF TypeOK
      <4>5. \A t \in Id : streams'[t] = Cardinality(OpenOn(t)')
        BY <3>2, <4>2, <4>3, <4>4
      <4> QED BY <4>5 DEF StreamsCounted, OpenOn
    <3>4. CASE StreamFree(h)
      <4>1. /\ hpc[h] \in StreamLocs /\ hpc'[h] \notin StreamLocs
            /\ streams' = [streams EXCEPT ![x] = IF @ > 0 THEN @ - 1 ELSE @]
        BY <1>0, <3>4 DEF StreamFree, Return, TypeOK, StreamLocs
      <4>2. \A t \in Id : OpenOn(t)' = IF t = x THEN OpenOn(t) \ {h} ELSE OpenOn(t)
        BY <3>1, <4>1 DEF OpenOn, Others
      <4>3. h \in OpenOn(x) /\ Cardinality(OpenOn(x) \ {h}) = Cardinality(OpenOn(x)) - 1
        BY <3>1, <3>2, <4>1, FS_RemoveElement DEF OpenOn
      <4>4. streams[x] > 0
        BY <1>0, <4>1, OpenIsCounted
      <4>5. \A t \in Id : streams'[t] = IF t = x THEN streams[t] - 1 ELSE streams[t]
        BY <1>0, <4>1, <4>4 DEF TypeOK
      <4>6. \A t \in Id : streams'[t] = Cardinality(OpenOn(t)')
        BY <3>2, <4>2, <4>3, <4>5
      <4> QED BY <4>6 DEF StreamsCounted, OpenOn
    <3> QED BY <2>1, <3>3, <3>4
  <2>2. ASSUME NEW h \in Handlers, Handler(h), ~StreamOpen(h), ~StreamFree(h)
        PROVE  StreamsCounted'
    <3>1. \A g \in Handlers : SameStream(g)
      BY <2>2, HandlerStreams DEF Others, SameStream
    <3> QED BY <1>0, <2>2, <3>1, HandlerStreams, CountKept
  <2>3. CASE UNCHANGED <<streams, handler>>
    BY <1>0, <2>3, CountKept DEF SameStream, handler
  <2>4. (\E t \in Id : Worker(t)) => UNCHANGED <<streams, handler>>
    BY DEF Worker, WorkerStart, WorkerDone, WorkerCanceled, WorkerFailed, WorkerStuck,
           WorkerRecheck,
           WorkerSettle, table
  <2>5. Client => UNCHANGED <<streams, handler>>
    BY DEF Client, CreateRefused, ApiCancel, ApiTasks, EnqueuePkg, table
  <2>6. PkgWorker \/ SpuriousPkgWakeup \/ UNCHANGED vars => UNCHANGED <<streams, handler>>
    BY DEF PkgWorker, PkgWait, PkgTake, PkgInstall, SpuriousPkgWakeup, table, vars
  <2> QED BY <2>1, <2>2, <2>3, <2>4, <2>5, <2>6 DEF Next
<1>2. StreamTaskAlive'
  <2> SUFFICES ASSUME NEW h \in Handlers, hpc'[h] \in StreamLocs
               PROVE  state'[htask'[h]] # "freed"
    BY DEF StreamTaskAlive
  <2>1. CASE hpc[h] \in StreamLocs /\ htask'[h] = htask[h]
    <3>1. htask[h] \in Id /\ streams[htask[h]] > 0 /\ state[htask[h]] # "freed"
      BY <1>0, <2>1, OpenIsCounted DEF StreamTaskAlive
    <3>2. Changes(htask[h]) /\ streams[htask[h]] \in Nat
      BY <1>0, <3>1, StateChanges DEF TypeOK
    <3> QED BY <2>1, <3>1, <3>2 DEF Changes, Revives, ActiveStates, TerminalStates
  <2>2. CASE StreamOpen(h)
    BY <2>2 DEF StreamOpen
  <2>3. ASSUME NEW g \in Handlers, Handler(g)
        PROVE  StreamOpen(h) \/ (hpc[h] \in StreamLocs /\ htask'[h] = htask[h])
    <3>1. CASE StreamOpen(g) \/ StreamFree(g)
      BY <1>0, <3>1 DEF StreamOpen, StreamFree, Goto, Return, TypeOK, StreamLocs
    <3>2. CASE ~StreamOpen(g) /\ ~StreamFree(g)
      BY <2>3, <3>2, HandlerStreams DEF Others, SameStream
    <3> QED BY <3>1, <3>2
  <2>4. (\E t \in Id : Worker(t)) => UNCHANGED handler
    BY DEF Worker, WorkerStart, WorkerDone, WorkerCanceled, WorkerFailed, WorkerStuck,
           WorkerRecheck,
           WorkerSettle
  <2>5. Client => UNCHANGED handler
    BY DEF Client, CreateRefused, ApiCancel, ApiTasks, EnqueuePkg
  <2>6. PkgWorker \/ SpuriousPkgWakeup \/ UNCHANGED vars => UNCHANGED handler
    BY DEF PkgWorker, PkgWait, PkgTake, PkgInstall, SpuriousPkgWakeup, vars
  <2> QED BY <2>1, <2>2, <2>3, <2>4, <2>5, <2>6 DEF Next, handler
<1> QED BY <1>1, <1>2 DEF StreamInv

LEMMA InitStreamInv == Init => StreamInv
<1> SUFFICES ASSUME Init PROVE StreamInv
  OBVIOUS
<1>1. ASSUME NEW t \in Id
      PROVE  streams[t] = Cardinality(OpenOn(t))
  <2>1. OpenOn(t) = {} /\ streams[t] = 0
    BY DEF Init, OpenOn, StreamLocs
  <2> QED BY <2>1, FS_EmptySet
<1> QED BY <1>1 DEF Init, StreamInv, StreamsCounted, StreamTaskAlive, OpenOn, StreamLocs

-------------------------------------------------------------------------------
(* The theorems.                                                           *)

(* The inductive invariant holds for every set of connections and          *)
(* packages and every number of tasks.                                     *)
THEOREM RegistryInvariance == Spec => [](IInv /\ StreamInv)
<1>1. Init => IInv /\ StreamInv
  BY InitIInv, InitStreamInv
<1>2. IInv /\ StreamInv /\ [Next]_vars => (IInv /\ StreamInv)'
  BY NextIInv, NextStreamInv
<1> QED BY <1>1, <1>2, PTL DEF Spec

(* Every state of a task is one of task_state_t, and exactly the ids that  *)
(* g_next_task_id has passed are in use.                                   *)
THEOREM RegistryTypeCorrect == Spec => []TypeOK
<1>1. IInv => TypeOK
  BY DEF IInv
<1> QED BY <1>1, RegistryInvariance, PTL

(* Whichever requests race, at most one task besides uploads and package   *)
(* installations is queued or running.                                     *)
THEOREM OneBackgroundTask == Spec => []OneActiveBesidesUploads
<1>1. IInv => OneActiveBesidesUploads
  BY DEF IInv
<1> QED BY <1>1, RegistryInvariance, PTL

(* A reap never frees the task of a worker that runs, of one about to be   *)
(* started, or of a download that is being sent.  It may free the task of  *)
(* a handler that only reports it (ReplyTaskAlive is refuted).             *)
THEOREM WorkersKeepTask == Spec => []WorkerTaskAlive
<1>1. IInv => WorkerTaskAlive
  <2> SUFFICES ASSUME IInv PROVE WorkerTaskAlive
    OBVIOUS
  <2>1. \A t \in Id : wpc[t] \in WorkerLocs => IsActive(t)
    BY DEF IInv, WorkerInv
  <2>2. \A h \in Handlers : hpc[h] \in DownloadLocs \cup {"spawn"} => IsActive(htask[h])
    BY DEF IInv, HandlerInv, PointerInv, SpawnInv, DownloadInv, IsActive, ActiveStates
  <2> QED BY <2>1, <2>2 DEF WorkerTaskAlive
<1> QED BY <1>1, RegistryInvariance, PTL

(* No two requests stream the same download.                               *)
THEOREM DownloadStreamedOnce == Spec => []OneDownloadStream
<1>1. IInv => OneDownloadStream
  BY DEF IInv, Unshared, OneDownloadStream
<1> QED BY <1>1, RegistryInvariance, PTL

(* active_streams is the number of streams that are open on an upload.     *)
THEOREM StreamCountExact == Spec => []StreamsCounted
<1>1. StreamInv => StreamsCounted
  BY DEF StreamInv
<1> QED BY <1>1, RegistryInvariance, PTL

(* An upload is never freed under a stream that is open on it.             *)
THEOREM StreamKeepsTask == Spec => []StreamTaskAlive
<1>1. StreamInv => StreamTaskAlive
  BY DEF StreamInv
<1> QED BY <1>1, RegistryInvariance, PTL

(* A path is never queued or installed twice at the same time.             *)
THEOREM PackagesOnce == Spec => []PkgPathsDistinct
<1>1. IInv => PkgPathsDistinct
  BY DEF IInv
<1> QED BY <1>1, RegistryInvariance, PTL

(* The result of an installation is not dropped before it was reported.    *)
THEOREM ResultsReported == Spec => []PkgResultReported
<1>1. IInv => PkgResultReported
  BY DEF IInv
<1> QED BY <1>1, RegistryInvariance, PTL

(* A settled upload is reaped, or made RUNNING by a stream that is still   *)
(* open on it: no second outcome is stored over the first.                 *)
THEOREM UploadKeepsOutcome == Spec => UploadOutcomeKept
<1>1. IInv /\ StreamInv /\ [Next]_vars =>
        [\A t \in Id : op[t] = "upload" /\ IsTerminal(t) =>
           \/ state'[t] \in {state[t], "freed"}
           \/ streams[t] > 0 /\ state'[t] = "running"]_vars
  <2> SUFFICES ASSUME IInv, StreamInv, [Next]_vars,
                      NEW t \in Id, op[t] = "upload", IsTerminal(t),
                      state'[t] \notin {state[t], "freed"}
               PROVE  streams[t] > 0 /\ state'[t] = "running"
    OBVIOUS
  <2>1. Changes(t)
    BY StateChanges
  <2>2. Revives(t)
    BY <2>1 DEF Changes, IsTerminal, IsActive, TerminalStates, ActiveStates
  <2>3. PICK h \in Handlers : hpc[h] \in StreamLocs /\ htask[h] = t
    BY <2>2 DEF Revives, StreamLocs
  <2> QED BY <2>2, <2>3, OpenIsCounted DEF StreamInv, Revives
<1> QED BY <1>1, RegistryInvariance, PTL DEF Spec, UploadOutcomeKept

(* A settled task comes back only under a stream that is still open on it. *)
THEOREM RevivedOnlyUnderStream == Spec => RevivedOnlyByOpenStream
<1>1. IInv /\ StreamInv /\ [Next]_vars =>
        [\A t \in Id : IsTerminal(t) /\ streams[t] = 0 => ~IsActive(t)']_vars
  <2> SUFFICES ASSUME IInv, StreamInv, [Next]_vars,
                      NEW t \in Id, IsTerminal(t), streams[t] = 0, IsActive(t)'
               PROVE  FALSE
    OBVIOUS
  <2>1. Changes(t)
    BY StateChanges
  <2>2. Revives(t)
    BY <2>1 DEF Changes, IsTerminal, IsActive, TerminalStates, ActiveStates
  <2>3. PICK h \in Handlers : hpc[h] \in StreamLocs /\ htask[h] = t
    BY <2>2 DEF Revives, StreamLocs
  <2> QED BY <2>3, OpenIsCounted DEF StreamInv
<1> QED BY <1>1, RegistryInvariance, PTL DEF Spec, RevivedOnlyByOpenStream

-------------------------------------------------------------------------------
(* The transfer that is announced as complete.                             *)

(* An id keeps the operation it was handed out for.                        *)
LEMMA OpKept ==
  ASSUME IInv, [Next]_vars
  PROVE  \A t \in Id : op[t] # "none" => op'[t] = op[t]
<1>0. /\ TypeOK /\ Allocated
      /\ nextId \in Nat
  BY MaxTasksAssumption DEF IInv, TypeOK
<1>1. ASSUME NEW o, NEW s, Insert(o, s)
      PROVE  \A t \in Id : op[t] # "none" => op'[t] = op[t]
  BY <1>0, <1>1 DEF Insert, TypeOK, Allocated, Id
<1>2. ASSUME NEW h \in Handlers, Handler(h)
      PROVE  \A t \in Id : op[t] # "none" => op'[t] = op[t]
  <2>1. UNCHANGED op \/ \E o, s : Insert(o, s)
    BY <1>2
    DEF Handler, Create, CreateTask, SpawnWorker, Reply, Download, DownloadClaim, DownloadPrepare,
        DownloadRead, DownloadClose, DownloadSettle, DownloadOom, Upload, UploadCheck,
        UploadPrepare, UploadFind, StaleHandler, StreamOpen, StreamBegin, StreamWrite,
        StreamProgress, StreamStop, StreamDone, StreamFail, StreamFree, FinishCheck,
        FinishSettle, FileOp, FileOpCheck, FileOpDone, table
  <2> QED BY <1>1, <2>1
<1>3. (\E t \in Id : Worker(t)) => UNCHANGED op
  BY DEF Worker, WorkerStart, WorkerDone, WorkerCanceled, WorkerFailed, WorkerStuck,
           WorkerRecheck,
         WorkerSettle, table
<1>4. CASE Client
  <2>1. ASSUME NEW S \in SUBSET Paths, EnqueuePkg(S)
        PROVE  \A t \in Id : op[t] # "none" => op'[t] = op[t]
    <3>1. PICK n \in Nat :
             op' = [t \in Id |-> IF t \in nextId .. nextId + n - 1 THEN "pkg" ELSE op[t]]
      <4>1. \A T \in SUBSET S : Cardinality(T) \in Nat
        BY FiniteAssumption, FS_Subset, FS_CardinalityType
      <4>2. Cardinality({p \in S : ~ActivePkgPath(p)}) \in Nat
        BY <4>1
      <4> QED BY <2>1, <4>2 DEF EnqueuePkg
    <3> QED BY <1>0, <3>1 DEF Allocated, Id
  <2> QED BY <1>4, <2>1 DEF Client, CreateRefused, ApiCancel, ApiTasks, table
<1>5. PkgWorker \/ SpuriousPkgWakeup \/ UNCHANGED vars => UNCHANGED op
  BY DEF PkgWorker, PkgWait, PkgTake, PkgInstall, SpuriousPkgWakeup, table, vars
<1> QED BY <1>2, <1>3, <1>4, <1>5 DEF Next

(* g_last_completion changes to a task that is stored as DONE in the same  *)
(* locked region, by its worker thread or by the end of an upload.         *)
LEMMA CompletionSource ==
  ASSUME IInv, [Next]_vars, completion' # completion
  PROVE  \E t \in Id : /\ completion' = t
                       /\ \/ op[t] = "upload"
                          \/ op[t] = "copy" /\ state'[t] = "done"
<1>1. ASSUME NEW t \in Id, Worker(t)
      PROVE  completion' = t /\ op[t] = "copy" /\ state'[t] = "done"
  <2>1. WorkerDone(t)
    BY <1>1 DEF Worker, WorkerStart, WorkerCanceled, WorkerFailed, WorkerStuck,
           WorkerRecheck, WorkerSettle
  <2>2. op[t] \in BackgroundOps /\ IsActive(t)
    BY <2>1 DEF WorkerDone, IInv, WorkerInv, WorkerLocs
  <2>3. state'[t] = "done"
    BY <2>1, <2>2, TaskUpdateFacts DEF WorkerDone, IInv, IsActive, ActiveStates, TerminalStates
  <2>4. completion' = t /\ op[t] = "copy"
    BY <2>1, <2>2 DEF WorkerDone, Completed, BackgroundOps
  <2> QED BY <2>3, <2>4
<1>2. ASSUME NEW h \in Handlers, Handler(h)
      PROVE  htask[h] \in Id /\ op[htask[h]] = "upload" /\ completion' = htask[h]
  <2>1. StreamFail(h) \/ FinishSettle(h)
    BY <1>2
    DEF Handler, Create, CreateTask, SpawnWorker, Reply, Download, DownloadClaim, DownloadPrepare,
        DownloadRead, DownloadClose, DownloadSettle, DownloadOom, Upload, UploadCheck,
        UploadPrepare, UploadFind, StaleHandler, StreamOpen, StreamBegin, StreamWrite,
        StreamProgress, StreamStop, StreamDone, StreamFree, FinishCheck,
        FileOp, FileOpCheck, FileOpDone
  <2>2. htask[h] \in Id /\ op[htask[h]] = "upload"
    BY <2>1 DEF IInv, HandlerInv, PointerInv, UploadInv, UploadLocs, StreamLocs, StreamFail,
                FinishSettle
  <2> QED BY <2>1, <2>2 DEF StreamFail, FinishSettle, FinishUpload, Completed
<1>3. ~Client /\ ~PkgWorker /\ ~SpuriousPkgWakeup /\ ~UNCHANGED vars
  BY DEF Client, CreateRefused, ApiCancel, ApiTasks, EnqueuePkg, PkgWorker, PkgWait, PkgTake,
         PkgInstall, SpuriousPkgWakeup, vars
<1> QED BY <1>1, <1>2, <1>3 DEF Next

(* A copy that is announced stays done until it is reaped.  An upload may  *)
(* be revived by a stream that is still open on it.                        *)
CompletionInv ==
  completion # NoTask =>
    \/ op[completion] = "upload"
    \/ op[completion] = "copy" /\ state[completion] \in {"done", "freed"}

LEMMA NextCompletionInv == IInv /\ CompletionInv /\ [Next]_vars => CompletionInv'
<1> SUFFICES ASSUME IInv, CompletionInv, [Next]_vars, completion' # NoTask
             PROVE  \/ op'[completion'] = "upload"
                    \/ op'[completion'] = "copy" /\ state'[completion'] \in {"done", "freed"}
  BY DEF CompletionInv, NoTask
<1>1. CASE completion' = completion
  <2>1. completion \in Id /\ op[completion] # "none" /\ op'[completion] = op[completion]
    BY <1>1, OpKept DEF IInv, TypeOK, CompletionInv
  <2>2. CASE op[completion] = "copy"
    <3>1. Changes(completion) /\ state[completion] \in {"done", "freed"}
      BY <1>1, <2>1, <2>2, StateChanges DEF CompletionInv
    <3> QED BY <1>1, <2>1, <2>2, <3>1
            DEF Changes, Revives, IsActive, ActiveStates, TerminalStates
  <2> QED BY <1>1, <2>1, <2>2 DEF CompletionInv
<1>2. CASE completion' # completion
  <2>1. PICK t \in Id : /\ completion' = t
                        /\ \/ op[t] = "upload"
                           \/ op[t] = "copy" /\ state'[t] = "done"
    BY <1>2, CompletionSource
  <2>2. op'[t] = op[t]
    BY <2>1, OpKept
  <2> QED BY <2>1, <2>2
<1> QED BY <1>1, <1>2

(* Whatever else runs, the copy or move announced by g_last_completion was *)
(* stored as DONE and was not turned into anything else before its reap.   *)
THEOREM AnnouncedIsDone == Spec => []CompletionIsDone
<1>1. Init => CompletionInv
  BY DEF Init, CompletionInv
<1>2. CompletionInv => CompletionIsDone
  BY DEF CompletionInv, CompletionIsDone
<1> QED BY RegistryInvariance, NextCompletionInv, <1>1, <1>2, PTL DEF Spec

===============================================================================
