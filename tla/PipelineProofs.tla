--------------------------- MODULE PipelineProofs ---------------------------
(***************************************************************************)
(* Theorems about Pipeline, for any sets of workers and jobs.              *)
(***************************************************************************)
EXTENDS Pipeline, FunctionTheorems, FiniteSetTheorems, TLAPS

Unlisted(k, w) == w \in Pool(k) /\ place[w] # "none" /\ w \notin SeqRange(staff[k])
Leaving(w) == quit[w] /\ place[w] # "none"

(* The staff: the lists hold the running workers, each once, but for the   *)
(* one that is being enlisted; only the worker at the head of the list     *)
(* that is being shortened has its quit flag set; EXITED means exited.     *)
StaffTypes ==
  /\ place \in [Workers -> Places]
  /\ status \in [Workers -> {"IDLE", "BUSY", "EXITED"}]
  /\ quit \in [Workers -> BOOLEAN]
  /\ staff \in [Kinds -> Seq(Workers)]
  /\ mgr \in [at : {"idle", "hire", "enlist", "fire", "firing", "notify"},
              kind : Kinds, count : Nat]

ListsHoldStaff == \A k \in Kinds :
  /\ \A i \in DOMAIN staff[k] : staff[k][i] \in Pool(k) /\ place[staff[k][i]] # "none"
  /\ \A i, j \in DOMAIN staff[k] : staff[k][i] = staff[k][j] => i = j

OneUnlisted == \A k \in Kinds, v, w \in Workers :
  Unlisted(k, v) /\ Unlisted(k, w) => v = w /\ mgr.at = "enlist" /\ mgr.kind = k

OnlyFiredLeaves ==
  /\ mgr.at \in {"firing", "notify"} => Len(staff[mgr.kind]) > mgr.count
  /\ \A w \in Workers :
       /\ place[w] = "exited" => status[w] = "EXITED" /\ quit[w]
       /\ status[w] = "EXITED" => place[w] \in {"exited", "none"}
       /\ Leaving(w) => mgr.at \in {"firing", "notify"} /\ w = Fired

StaffInv == StaffTypes /\ ListsHoldStaff /\ OneUnlisted /\ OnlyFiredLeaves

\* What a step of the workers, or a notification, may do to them.
WorkersMove ==
  /\ UNCHANGED <<staff, mgr, quit>>
  /\ place' \in [Workers -> Places]
  /\ status' \in [Workers -> {"IDLE", "BUSY", "EXITED"}]
  /\ \A w \in Workers :
       \/ place'[w] = place[w] /\ status'[w] = status[w]
       \/ /\ place[w] \notin {"none", "exited"}
          /\ place'[w] \notin {"none", "exited"} /\ status'[w] # "EXITED"
       \/ /\ place[w] \notin {"none", "exited"}
          /\ place'[w] = "exited" /\ status'[w] = "EXITED" /\ quit[w]

(* The workers' own steps move them along, and only a worker whose quit    *)
(* flag is set exits.                                                      *)
LEMMA WorkersAreMoved ==
  ASSUME StaffInv, [Next]_vars,
         ~HireFire, ~Destroy, ~DestroyInput,
         ~(\E kind \in Kinds, n \in Counts : SetWorkerCount(kind, n))
  PROVE  WorkersMove
<1> USE DEF StaffTypes, OnlyFiredLeaves, WorkersMove, workerVars, queues, cbVars, mgrVars, history
<1>0. /\ place \in [Workers -> Places] /\ quit \in [Workers -> BOOLEAN]
      /\ status \in [Workers -> {"IDLE", "BUSY", "EXITED"}]
      /\ ProcessWorkers \subseteq Workers /\ CallbackWorkers \subseteq Workers
      /\ \A w \in Workers : status[w] = "EXITED" => place[w] \in {"exited", "none"}
  BY DEF StaffInv, Workers
<1>1. ASSUME NEW w \in Workers, LoopHead(w) \/ Sleep(w) \/ SpuriousWakeup(w) PROVE WorkersMove
  BY <1>0, <1>1 DEF LoopHead, Sleep, SpuriousWakeup, Go, Places
<1>2. ASSUME NEW w \in ProcessWorkers,
             ProcessWait(w) \/ PushProduct(w) \/ LookForCallback(w) \/ NotifyFinish(w)
      PROVE  WorkersMove
  <2>1. CASE ProcessWait(w)
    BY <1>0, <2>1 DEF ProcessWait, Leave, TakeJob, Decide, Go, Places, StatusWhileProcessing
  <2>2. CASE PushProduct(w) \/ LookForCallback(w)
    BY <1>0, <2>2 DEF PushProduct, LookForCallback, Go, Places
  <2>3. CASE NotifyFinish(w)
    BY <1>0, <2>3 DEF NotifyFinish, Places
  <2> QED
    BY <1>2, <2>1, <2>2, <2>3
<1>3. ASSUME NEW w \in CallbackWorkers,
             CallbackWait(w) \/ Call(w) \/ Returned(w) \/ CallbackFail(w)
      PROVE  WorkersMove
  <2>1. CASE CallbackWait(w)
    BY <1>0, <2>1 DEF CallbackWait, Leave, TakeProduct, Decide, Go, Places
  <2>2. CASE Call(w) \/ Returned(w) \/ CallbackFail(w)
    BY <1>0, <2>2 DEF Call, Returned, CallbackFail, Go, Places
  <2> QED
    BY <1>3, <2>1, <2>2
<1>4. ASSUME NEW j \in Jobs, AddJob(j) PROVE WorkersMove
  BY <1>0, <1>4 DEF AddJob, NotifyOne, Places
<1>5. CASE GetProduct \/ SetCallbackStore \/ Destroyed \/ UNCHANGED vars
           \/ \E b \in {"set", "reset"} : SetCallback(b)
  BY <1>0, <1>5 DEF GetProduct, SetCallbackStore, SetCallback, Destroyed, vars
<1> QED
  BY <1>0, <1>1, <1>2, <1>3, <1>4, <1>5 DEF Next, ProcessStep, CallbackStep

(* StaffInv is inductive.                                                  *)
LEMMA StaffCorrect == Spec => []StaffInv
<1> USE PipelineAssumption
    DEF Kinds, Pool, Workers, StaffTypes, ListsHoldStaff, OneUnlisted, OnlyFiredLeaves
<1>1. Init => StaffInv
  <2> SUFFICES ASSUME Init PROVE StaffInv
    OBVIOUS
  <2>1. PICK p \in ProcessWorkers, c \in CallbackWorkers :
          /\ staff = [k \in Kinds |-> IF k = "process" THEN <<p>> ELSE <<c>>]
          /\ place = [w \in Workers |-> IF w \in {p, c} THEN "top" ELSE "none"]
    BY DEF Init
  <2>2. /\ status = [w \in Workers |-> "IDLE"] /\ quit = [w \in Workers |-> FALSE]
        /\ mgr = [at |-> "idle", kind |-> "process", count |-> 0]
    BY DEF Init
  <2>3. /\ staff \in [Kinds -> Seq(Workers)]
        /\ DOMAIN staff["process"] = {1} /\ staff["process"][1] = p
        /\ DOMAIN staff["callback"] = {1} /\ staff["callback"][1] = c
    BY <2>1
  <2>4. SeqRange(staff["process"]) = {p} /\ SeqRange(staff["callback"]) = {c}
    BY <2>3 DEF SeqRange
  <2>5. \A k \in Kinds, w \in Workers : ~Unlisted(k, w)
    BY <2>1, <2>4 DEF Unlisted
  <2> QED
    BY <2>1, <2>2, <2>3, <2>5 DEF StaffInv, Places, Leaving
<1>2. StaffInv /\ [Next]_vars => StaffInv'
  <2> SUFFICES ASSUME StaffInv, [Next]_vars PROVE StaffInv'
    OBVIOUS
  <2> USE DEF workerVars, queues, cbVars, mgrVars, history
  <2>1. CASE WorkersMove
    <3>1. \A k \in Kinds, w \in Workers : Unlisted(k, w)' <=> Unlisted(k, w)
      BY <2>1 DEF WorkersMove, Unlisted
    <3>2. \A w \in Workers : Leaving(w)' <=> Leaving(w)
      BY <2>1 DEF WorkersMove, Leaving
    <3>3. Fired' = Fired
      BY <2>1 DEF WorkersMove, Fired
    <3> QED
      BY <2>1, <3>1, <3>2, <3>3 DEF WorkersMove, StaffInv
  <2>2. ASSUME UNCHANGED <<staff, place, status, quit>>,
               mgr' \in [at : {"idle", "hire", "fire"}, kind : Kinds, count : Nat],
               mgr.at \in {"idle", "hire", "fire"}
        PROVE  StaffInv'
    BY <2>2 DEF StaffInv, Unlisted, Leaving
  <2>3. CASE \/ \E kind \in Kinds, n \in Counts : SetWorkerCount(kind, n)
             \/ DestroyInput \/ DestroyOutput
    BY <2>2, <2>3 DEF SetWorkerCount, DestroyInput, DestroyOutput, FireOrder
  <2>4. CASE HireDone
    BY <2>2, <2>4 DEF HireDone, StaffInv
  <2>5. CASE DestroyEnd
    BY <2>5 DEF DestroyEnd, StaffInv, Unlisted, Leaving, Fired
  <2>6. CASE Hire
    <3>1. mgr.at = "hire" /\ mgr' = [mgr EXCEPT !.at = "enlist"] /\ staff' = staff
      BY <2>6 DEF Hire
    <3>2. PICK w \in Pool(mgr.kind) :
            /\ place[w] = "none" /\ place' = [place EXCEPT ![w] = "top"]
            /\ status' = [status EXCEPT ![w] = "IDLE"] /\ quit' = [quit EXCEPT ![w] = FALSE]
      BY <2>6, Zenon DEF Hire, Go
    <3>3. w \in Workers /\ mgr.kind \in Kinds
      BY DEF StaffInv
    <3>4. \A k \in Kinds, v \in Workers : Unlisted(k, v)' => v = w /\ k = mgr.kind
      BY <3>1, <3>2, <3>3 DEF Unlisted, StaffInv
    <3>5. \A v \in Workers : ~Leaving(v)'
      BY <3>1, <3>2, <3>3 DEF Leaving, StaffInv
    <3> QED
      BY <3>1, <3>2, <3>3, <3>4, <3>5 DEF StaffInv, Places
  <2>7. CASE Enlist
    <3>1. /\ mgr.at = "enlist" /\ mgr' = [mgr EXCEPT !.at = "hire"]
          /\ UNCHANGED <<place, status, quit>>
      BY <2>7 DEF Enlist
    <3>2. PICK w \in Pool(mgr.kind) \ SeqRange(staff[mgr.kind]) :
            place[w] # "none" /\ staff' = [staff EXCEPT ![mgr.kind] = Append(@, w)]
      BY <2>7, Zenon DEF Enlist
    <3> DEFINE s == staff[mgr.kind]
    <3>3. /\ w \in Workers /\ mgr.kind \in Kinds /\ s \in Seq(Workers)
          /\ staff'[mgr.kind] = Append(s, w)
          /\ \A k \in Kinds \ {mgr.kind} : staff'[k] = staff[k]
      BY <3>2 DEF StaffInv
    <3>4. /\ DOMAIN Append(s, w) = DOMAIN s \cup {Len(s) + 1} /\ Len(s) + 1 \notin DOMAIN s
          /\ Append(s, w)[Len(s) + 1] = w
          /\ \A i \in DOMAIN s : Append(s, w)[i] = s[i]
      BY <3>3
    <3>5. SeqRange(Append(s, w)) = SeqRange(s) \cup {w} /\ w \notin SeqRange(s)
      BY <3>2, <3>4 DEF SeqRange
    <3>6. \A k \in Kinds, v \in Workers : ~Unlisted(k, v)'
      BY <3>1, <3>2, <3>3, <3>5 DEF Unlisted, StaffInv
    <3>7. staff' \in [Kinds -> Seq(Workers)]
      BY <3>2, <3>3 DEF StaffInv
    <3>8. \A k \in Kinds :
            /\ \A i \in DOMAIN staff'[k] : staff'[k][i] \in Pool(k) /\ place'[staff'[k][i]] # "none"
            /\ \A i, j \in DOMAIN staff'[k] : staff'[k][i] = staff'[k][j] => i = j
      BY <3>1, <3>2, <3>3, <3>4, <3>5 DEF StaffInv, SeqRange
    <3>9. \A v \in Workers : ~Leaving(v)'
      BY <3>1 DEF Leaving, StaffInv
    <3>10. StaffTypes'
      BY <3>1, <3>7 DEF StaffInv
    <3>11. ListsHoldStaff' /\ OneUnlisted'
      BY <3>6, <3>8
    <3>12. OnlyFiredLeaves'
      BY <3>1, <3>9 DEF StaffInv
    <3> QED
      BY <3>10, <3>11, <3>12, Zenon DEF StaffInv
  <2>8. CASE FireNext
    BY <2>8 DEF FireNext, StaffInv, Unlisted, Leaving, Fired
  <2>9. CASE FireQuit
    <3>1. /\ mgr.at = "firing" /\ mgr' = [mgr EXCEPT !.at = "notify"]
          /\ quit' = [quit EXCEPT ![Fired] = TRUE]
          /\ UNCHANGED <<staff, place, status>>
      BY <2>9 DEF FireQuit
    <3>2. Fired' = Fired /\ Fired \in Workers
      BY <3>1 DEF Fired, StaffInv
    <3> QED
      BY <3>1, <3>2 DEF StaffInv, Unlisted, Leaving
  <2>10. CASE FireNotify
    <3>1. /\ mgr.at = "notify" /\ mgr' = [mgr EXCEPT !.at = "firing"]
          /\ place' = [w \in Workers |-> IF w \in Pool(mgr.kind) /\ place[w] = "asleep"
                                         THEN "lock" ELSE place[w]]
          /\ UNCHANGED <<staff, quit, status>>
      BY <2>10 DEF FireNotify, FireNotifies
    <3>2. Fired' = Fired
      BY <3>1 DEF Fired, StaffInv
    <3>3. \A k \in Kinds, w \in Workers :
            /\ Unlisted(k, w)' <=> Unlisted(k, w)
            /\ Leaving(w)' <=> Leaving(w)
      BY <3>1 DEF StaffInv, Unlisted, Leaving
    <3>4. /\ place' \in [Workers -> Places]
          /\ \A w \in Workers :
               /\ place'[w] = place[w] \/ (place[w] = "asleep" /\ place'[w] = "lock")
      BY <3>1 DEF StaffInv, Places
    <3>5. mgr' \in [at : {"idle", "hire", "enlist", "fire", "firing", "notify"},
                    kind : Kinds, count : Nat]
          /\ mgr'.at = "firing" /\ mgr'.kind = mgr.kind /\ mgr'.count = mgr.count
      BY <3>1 DEF StaffInv
    <3>6. \A k \in Kinds : \A i \in DOMAIN staff[k] :
            staff[k][i] \in Pool(k) /\ place'[staff[k][i]] # "none"
      <4> TAKE k \in Kinds
      <4> TAKE i \in DOMAIN staff[k]
      <4>1. staff[k][i] \in Pool(k) /\ staff[k][i] \in Workers /\ place[staff[k][i]] # "none"
        BY DEF StaffInv
      <4> QED
        BY <3>4, <4>1
    <3>7. \A w \in Workers :
            /\ place'[w] = "exited" => status'[w] = "EXITED" /\ quit'[w]
            /\ status'[w] = "EXITED" => place'[w] \in {"exited", "none"}
            /\ Leaving(w)' => w = Fired'
      BY <3>1, <3>2, <3>3, <3>4 DEF StaffInv
    <3>8. \A k \in Kinds, v, w \in Workers : ~(Unlisted(k, v)' /\ Unlisted(k, w)')
      BY <3>1, <3>3 DEF StaffInv
    <3>9. StaffTypes'
      BY <3>1, <3>4, <3>5 DEF StaffInv
    <3>10. ListsHoldStaff'
      BY <3>1, <3>6 DEF StaffInv
    <3>11. OneUnlisted'
      BY <3>8
    <3>12. OnlyFiredLeaves'
      BY <3>1, <3>5, <3>7 DEF StaffInv
    <3> QED
      BY <3>9, <3>10, <3>11, <3>12, Zenon DEF StaffInv
  <2>11. CASE FireJoin
    <3> DEFINE s == staff[mgr.kind]
    <3>1. /\ mgr.at = "firing" /\ mgr' = [mgr EXCEPT !.at = "fire"]
          /\ status[Fired] = "EXITED" /\ place' = [place EXCEPT ![Fired] = "none"]
          /\ staff' = [staff EXCEPT ![mgr.kind] = Tail(s)]
          /\ UNCHANGED <<quit, status>>
      BY <2>11 DEF FireJoin
    <3>2. /\ mgr.kind \in Kinds /\ s \in Seq(Workers) /\ Len(s) > 0
          /\ staff'[mgr.kind] = Tail(s)
          /\ \A k \in Kinds \ {mgr.kind} : staff'[k] = staff[k]
      BY <3>1 DEF StaffInv
    <3>3. /\ Fired = s[1] /\ 1 \in DOMAIN s
          /\ Tail(s) \in Seq(Workers)
          /\ \A i \in DOMAIN Tail(s) : i + 1 \in DOMAIN s /\ i + 1 # 1 /\ Tail(s)[i] = s[i + 1]
          /\ \A i \in DOMAIN s : i # 1 => i - 1 \in DOMAIN Tail(s) /\ s[i] = Tail(s)[i - 1]
      BY <3>2 DEF Fired
    <3>4. SeqRange(s) = SeqRange(Tail(s)) \cup {Fired}
      <4>1. ASSUME NEW i \in DOMAIN s PROVE s[i] \in SeqRange(Tail(s)) \cup {Fired}
        BY <3>3 DEF SeqRange
      <4>2. ASSUME NEW i \in DOMAIN Tail(s) PROVE Tail(s)[i] \in SeqRange(s)
        BY <3>3 DEF SeqRange
      <4>3. Fired \in SeqRange(s)
        BY <3>3 DEF SeqRange
      <4> QED
        BY <4>1, <4>2, <4>3 DEF SeqRange
    <3>5. \A i \in DOMAIN Tail(s) : Tail(s)[i] # Fired
      BY <3>2, <3>3 DEF StaffInv
    <3>6. Fired \in Pool(mgr.kind) /\ Fired \in Workers
      BY <3>2, <3>3 DEF StaffInv
    <3>7. \A k \in Kinds, v \in Workers : Unlisted(k, v)' => Unlisted(k, v)
      BY <3>1, <3>2, <3>4, <3>6 DEF Unlisted, StaffInv
    <3>8. \A v \in Workers : ~Leaving(v)'
      BY <3>1, <3>6 DEF Leaving, StaffInv
    <3>9. \A k \in Kinds :
            /\ \A i \in DOMAIN staff'[k] : staff'[k][i] \in Pool(k) /\ place'[staff'[k][i]] # "none"
            /\ \A i, j \in DOMAIN staff'[k] : staff'[k][i] = staff'[k][j] => i = j
      <4> TAKE k \in Kinds
      <4>1. CASE k = mgr.kind
        <5>1. \A i, j \in DOMAIN s : s[i] = s[j] => i = j
          BY <3>2 DEF StaffInv
        <5>2. \A i, j \in DOMAIN Tail(s) : Tail(s)[i] = Tail(s)[j] => i = j
          <6> SUFFICES ASSUME NEW i \in DOMAIN Tail(s), NEW j \in DOMAIN Tail(s),
                              Tail(s)[i] = Tail(s)[j]
                       PROVE  i = j
            OBVIOUS
          <6>1. i + 1 = j + 1 /\ i \in Nat /\ j \in Nat
            BY <3>2, <3>3, <5>1
          <6> QED
            BY <6>1
        <5>3. \A i \in DOMAIN Tail(s) : Tail(s)[i] \in Pool(mgr.kind) /\ place[Tail(s)[i]] # "none"
          BY <3>2, <3>3 DEF StaffInv
        <5> QED
          BY <3>1, <3>2, <3>5, <4>1, <5>2, <5>3 DEF StaffInv
      <4>2. CASE k # mgr.kind
        <5>1. \A i \in DOMAIN staff[k] : staff[k][i] # Fired
          BY <3>6, <4>2 DEF StaffInv
        <5> QED
          BY <3>1, <3>2, <4>2, <5>1 DEF StaffInv
      <4> QED
        BY <4>1, <4>2
    <3>10. staff' \in [Kinds -> Seq(Workers)] /\ place' \in [Workers -> Places]
      BY <3>1, <3>2, <3>3 DEF StaffInv, Places
    <3>11. StaffTypes'
      BY <3>1, <3>10 DEF StaffInv
    <3>12. ListsHoldStaff'
      BY <3>9
    <3>13. OneUnlisted'
      BY <3>1, <3>7 DEF StaffInv
    <3>14. OnlyFiredLeaves'
      <4>1. \A w \in Workers :
              place'[w] = place[w] \/ (place[w] = "exited" /\ place'[w] = "none")
        BY <3>1, <3>6 DEF StaffInv
      <4> QED
        BY <3>1, <3>8, <4>1 DEF StaffInv
    <3> QED
      BY <3>11, <3>12, <3>13, <3>14, Zenon DEF StaffInv
  <2> QED
    BY <2>1, <2>3, <2>4, <2>5, <2>6, <2>7, <2>8, <2>9, <2>10, <2>11, WorkersAreMoved
    DEF HireFire, Destroy
<1> QED
  BY <1>1, <1>2, PTL DEF Spec
-----------------------------------------------------------------------------
(* The destructor.                                                         *)

\* Nobody asks for no worker at all, see the run pipeline_leak.
SomebodyKept == 0 \notin Counts

(* hireFireWorker's early return, which compares with callbackWorkerList,  *)
(* lets no worker escape while that list is not empty.                     *)
PhaseInv ==
  /\ phase \in {"alive", "process", "output", "destroyed"}
  /\ phase = "alive" => mgr.at = "idle" \/ mgr.count # 0
  /\ phase \in {"alive", "process"} => staff["callback"] # <<>>
  /\ phase = "process" => /\ mgr.kind = "process" /\ mgr.count = 0 /\ mgr.at # "enlist"
                          /\ mgr.at = "idle" => staff["process"] = <<>>
  /\ phase = "output" => /\ mgr.kind = "callback" /\ mgr.count = 0 /\ mgr.at # "enlist"
                         /\ staff["process"] = <<>>
                         /\ mgr.at = "idle" => staff["callback"] = <<>>
  /\ phase = "destroyed" => /\ mgr.at = "idle"
                            /\ staff["process"] = <<>> /\ staff["callback"] = <<>>

(* PhaseInv is inductive, given the staff.                                 *)
LEMMA PhaseCorrect == ASSUME SomebodyKept PROVE Spec => []PhaseInv
<1> USE PipelineAssumption DEF Kinds, SomebodyKept
<1>1. Init => PhaseInv
  <2> SUFFICES ASSUME Init PROVE PhaseInv
    OBVIOUS
  <2>1. PICK c : staff["callback"] = <<c>>
    BY DEF Init
  <2>2. staff["callback"] # <<>> /\ phase = "alive" /\ mgr.at = "idle"
    BY <2>1 DEF Init
  <2> QED
    BY <2>2 DEF PhaseInv
<1>2. StaffInv /\ PhaseInv /\ [Next]_vars => PhaseInv'
  <2> SUFFICES ASSUME StaffInv, PhaseInv, [Next]_vars PROVE PhaseInv'
    OBVIOUS
  <2> USE DEF StaffInv, StaffTypes, mgrVars
  <2>1. CASE UNCHANGED mgrVars
    BY <2>1 DEF PhaseInv
  <2>2. CASE \E kind \in Kinds, n \in Counts : SetWorkerCount(kind, n)
    BY <2>2 DEF PhaseInv, SetWorkerCount
  <2>3. CASE Hire
    BY <2>3 DEF PhaseInv, Hire
  <2>4. CASE Enlist
    <3>1. /\ mgr.at = "enlist" /\ mgr' = [mgr EXCEPT !.at = "hire"] /\ phase' = phase
          /\ staff'["callback"] # <<>> \/ staff'["callback"] = staff["callback"]
      BY <2>4 DEF Enlist
    <3> QED
      BY <3>1 DEF PhaseInv
  <2>5. CASE HireDone
    <3>1. /\ mgr.at = "hire" /\ Len(staff[mgr.kind]) >= mgr.count
          /\ mgr' = [mgr EXCEPT !.at = IF Len(staff["callback"]) = mgr.count
                                       THEN "idle" ELSE "fire"]
          /\ UNCHANGED <<staff, phase>>
      BY <2>5 DEF HireDone
    <3>2. Len(staff["callback"]) = 0 <=> staff["callback"] = <<>>
      OBVIOUS
    <3> QED
      BY <3>1, <3>2 DEF PhaseInv
  <2>6. CASE FireNext
    <3>1. /\ mgr.at = "fire"
          /\ mgr' = [mgr EXCEPT !.at = IF Len(staff[mgr.kind]) > mgr.count
                                       THEN "firing" ELSE "idle"]
          /\ UNCHANGED <<staff, phase>>
      BY <2>6 DEF FireNext
    <3>2. \A k \in Kinds : Len(staff[k]) > 0 \/ staff[k] = <<>>
      OBVIOUS
    <3> QED
      BY <3>1, <3>2 DEF PhaseInv
  <2>7. CASE FireQuit \/ FireNotify
    BY <2>7 DEF PhaseInv, FireQuit, FireNotify
  <2>8. CASE FireJoin
    <3>1. /\ mgr.at = "firing" /\ mgr' = [mgr EXCEPT !.at = "fire"] /\ phase' = phase
          /\ staff' = [staff EXCEPT ![mgr.kind] = Tail(staff[mgr.kind])]
      BY <2>8 DEF FireJoin
    <3>2. Len(staff[mgr.kind]) > mgr.count /\ mgr.count \in Nat
      BY <3>1 DEF OnlyFiredLeaves
    <3>3. mgr.count # 0 => Tail(staff[mgr.kind]) # <<>>
      BY <3>2
    <3> QED
      BY <3>1, <3>3 DEF PhaseInv
  <2>9. CASE DestroyInput \/ DestroyOutput \/ DestroyEnd
    BY <2>9 DEF PhaseInv, DestroyInput, DestroyOutput, DestroyEnd, FireOrder
  <2>10. CASE (\E w \in ProcessWorkers : ProcessStep(w))
              \/ (\E c \in CallbackWorkers : CallbackStep(c))
    <3>1. UNCHANGED mgrVars
      BY <2>10 DEF ProcessStep, CallbackStep, LoopHead, ProcessWait, Leave, TakeJob, Decide,
                   Sleep, PushProduct, LookForCallback, NotifyFinish, CallbackWait,
                   TakeProduct, Call, Returned, CallbackFail
    <3> QED
      BY <2>1, <3>1
  <2>11. CASE \/ \E w \in Workers : SpuriousWakeup(w)
              \/ \E j \in Jobs : AddJob(j)
              \/ GetProduct \/ SetCallbackStore \/ Destroyed \/ UNCHANGED vars
              \/ \E b \in {"set", "reset"} : SetCallback(b)
    <3>1. UNCHANGED mgrVars
      BY <2>11 DEF SpuriousWakeup, AddJob, GetProduct, SetCallback, SetCallbackStore,
                   Destroyed, vars
    <3> QED
      BY <2>1, <3>1
  <2> QED
    BY <2>2, <2>3, <2>4, <2>5, <2>6, <2>7, <2>8, <2>9, <2>10, <2>11
    DEF Next, HireFire, Destroy
<1> QED
  BY <1>1, <1>2, StaffCorrect, PTL DEF Spec

(* The destructor leaves no running worker behind, provided that the       *)
(* worker counts that were asked for are not 0.                            *)
THEOREM NoWorkerLeftBehind == ASSUME SomebodyKept PROVE Spec => []AllFiredWhenDestroyed
<1>1. StaffInv /\ PhaseInv => AllFiredWhenDestroyed
  <2> SUFFICES ASSUME StaffInv, PhaseInv, phase = "destroyed", NEW w \in Workers,
                      place[w] # "none"
               PROVE  FALSE
    BY DEF AllFiredWhenDestroyed
  <2>1. PICK k \in Kinds : w \in Pool(k)
    BY DEF Workers, Kinds, Pool
  <2>2. staff[k] = <<>> /\ mgr.at = "idle"
    BY <2>1 DEF PhaseInv, Kinds
  <2>3. Unlisted(k, w)
    BY <2>1, <2>2 DEF Unlisted, SeqRange
  <2> QED
    BY <2>1, <2>2, <2>3 DEF StaffInv, OneUnlisted
<1> QED
  BY <1>1, StaffCorrect, PhaseCorrect, PTL
-----------------------------------------------------------------------------
(* What the workers hold.                                                  *)

Holding == {"process", "took", "call", "fail"}

(* A worker holds a job or product exactly between taking and passing on;  *)
(* and it is BUSY from the moment it takes a job, under the same lock.     *)
HandInv ==
  /\ queueProcess \in Seq(Jobs) /\ queueOutput \in Seq(Jobs)
  /\ callback \in BOOLEAN
  /\ writer \in {"none", "set", "reset"}
  /\ phase \in {"alive", "process", "output", "destroyed"}
  /\ hand \in [Workers -> Jobs \cup {NoJob}]
  /\ \A w \in Workers : hand[w] # NoJob <=> place[w] \in Holding
  /\ \A w \in ProcessWorkers : place[w] \notin {"took", "call", "fail"}
  /\ \A w \in CallbackWorkers : place[w] \notin {"process", "pushed", "notify"}
  /\ \A w \in Workers : place[w] = "process" => status[w] = "BUSY"

(* HandInv is inductive, given the staff.                                  *)
LEMMA HandsCorrect == Spec => []HandInv
<1> USE PipelineAssumption
<1>1. Init => HandInv
  <2> SUFFICES ASSUME Init PROVE HandInv
    OBVIOUS
  <2>1. \A w \in Workers : hand[w] = NoJob /\ place[w] \in {"top", "none"}
    BY DEF Init
  <2>2. callback \in BOOLEAN /\ writer = "none" /\ phase = "alive"
    BY DEF Init
  <2>3. queueProcess \in Seq(Jobs) /\ queueOutput \in Seq(Jobs) /\ hand \in [Workers -> Jobs \cup {NoJob}]
    BY DEF Init
  <2> QED
    BY <2>1, <2>2, <2>3 DEF HandInv, Holding, Workers
<1>2. StaffInv /\ HandInv /\ [Next]_vars => HandInv'
  <2> SUFFICES ASSUME StaffInv, HandInv, [Next]_vars PROVE HandInv'
    OBVIOUS
  <2> USE DEF StaffInv, StaffTypes, HandInv, Holding, Workers,
              workerVars, queues, cbVars, mgrVars, history
  <2>0. ASSUME NEW w \in Workers, UNCHANGED <<callback, writer, phase>>,
               queueProcess' \in Seq(Jobs), queueOutput' \in Seq(Jobs),
               hand' \in [Workers -> Jobs \cup {NoJob}],
               \A v \in Workers \ {w} :
                 place'[v] = place[v] /\ hand'[v] = hand[v] /\ status'[v] = status[v],
               hand'[w] # NoJob <=> place'[w] \in Holding,
               place'[w] \in {"took", "call", "fail"} => w \notin ProcessWorkers,
               place'[w] \in {"process", "pushed", "notify"} => w \notin CallbackWorkers,
               place'[w] = "process" => status'[w] = "BUSY"
        PROVE  HandInv'
    BY <2>0
  <2>1. ASSUME NEW w \in Workers, LoopHead(w) \/ Sleep(w) \/ SpuriousWakeup(w) PROVE HandInv'
    <3>1. /\ place[w] \in {"top", "decided", "asleep"}
          /\ \E x \in {"exited", "lock", "asleep"} : place' = [place EXCEPT ![w] = x]
          /\ status' = status \/ status' = [status EXCEPT ![w] = "EXITED"]
                              \/ status' = [status EXCEPT ![w] = "IDLE"]
          /\ UNCHANGED <<queues, cbVars, phase, hand>>
      BY <2>1 DEF LoopHead, Sleep, SpuriousWakeup, Go
    <3> QED
      BY <3>1
  <2>2. ASSUME NEW w \in ProcessWorkers, ProcessWait(w) PROVE HandInv'
    <3>1. CASE TakeJob(w)
      <4>1. queueProcess # <<>>
        BY <2>2, <3>1 DEF ProcessWait, Leave, TakeJob, Decide, Go
      <4>2. Head(queueProcess) \in Jobs /\ Tail(queueProcess) \in Seq(Jobs)
        BY <4>1
      <4> QED
        BY <3>1, <4>2 DEF TakeJob, Go, StatusWhileProcessing
    <3>2. CASE Leave(w) \/ Decide(w)
      BY <3>2 DEF Leave, Decide, Go
    <3> QED
      BY <2>2, <3>1, <3>2 DEF ProcessWait
  <2>3. ASSUME NEW w \in ProcessWorkers, PushProduct(w) PROVE HandInv'
    <3>1. hand[w] \in Jobs
      BY <2>3 DEF PushProduct, Go
    <3>2. Append(queueOutput, hand[w]) \in Seq(Jobs)
      BY <3>1
    <3> QED
      BY <2>3, <3>2 DEF PushProduct, Go
  <2>4. ASSUME NEW w \in ProcessWorkers, LookForCallback(w) \/ NotifyFinish(w) PROVE HandInv'
    <3>1. CASE LookForCallback(w)
      BY <3>1 DEF LookForCallback, Go
    <3>2. CASE NotifyFinish(w)
      BY <3>2 DEF NotifyFinish
    <3> QED
      BY <2>4, <3>1, <3>2
  <2>5. ASSUME NEW c \in CallbackWorkers, CallbackWait(c) PROVE HandInv'
    <3>1. CASE TakeProduct(c)
      <4>1. queueOutput # <<>>
        BY <2>5, <3>1 DEF CallbackWait, Leave, TakeProduct, Decide, Go
      <4>2. Head(queueOutput) \in Jobs /\ Tail(queueOutput) \in Seq(Jobs)
        BY <4>1
      <4>3. /\ place' = [place EXCEPT ![c] = "took"]
            /\ hand' = [hand EXCEPT ![c] = Head(queueOutput)]
            /\ status' = [status EXCEPT ![c] = "BUSY"]
            /\ queueOutput' = Tail(queueOutput) /\ queueProcess' = queueProcess
            /\ UNCHANGED <<callback, writer, phase>>
        BY <3>1 DEF TakeProduct, Go
      <4>4. /\ place'[c] = "took" /\ hand'[c] = Head(queueOutput)
            /\ hand' \in [Workers -> Jobs \cup {NoJob}]
            /\ \A v \in Workers \ {c} :
                 place'[v] = place[v] /\ hand'[v] = hand[v] /\ status'[v] = status[v]
        BY <4>2, <4>3
      <4> QED
        BY <2>0, <4>2, <4>3, <4>4
    <3>2. CASE Leave(c) \/ Decide(c)
      BY <3>2 DEF Leave, Decide, Go
    <3> QED
      BY <2>5, <3>1, <3>2 DEF CallbackWait
  <2>6. ASSUME NEW c \in CallbackWorkers, Call(c) \/ Returned(c) PROVE HandInv'
    <3>1. CASE Call(c)
      <4>1. /\ place[c] = "took"
            /\ place' = [place EXCEPT ![c] = IF callback THEN "call" ELSE "fail"]
            /\ UNCHANGED <<queues, cbVars, phase, status, hand>>
        BY <3>1 DEF Call, Go
      <4>2. /\ place'[c] \in {"call", "fail"} /\ hand[c] # NoJob
            /\ \A v \in Workers \ {c} : place'[v] = place[v]
        BY <4>1
      <4> QED
        BY <2>0, <4>1, <4>2
    <3>2. CASE Returned(c)
      <4>1. /\ place' = [place EXCEPT ![c] = "top"]
            /\ hand' = [hand EXCEPT ![c] = NoJob]
            /\ UNCHANGED <<queues, cbVars, phase, status>>
        BY <3>2 DEF Returned, Go
      <4>2. /\ place'[c] = "top" /\ hand'[c] = NoJob
            /\ hand' \in [Workers -> Jobs \cup {NoJob}]
            /\ \A v \in Workers \ {c} : place'[v] = place[v] /\ hand'[v] = hand[v]
        BY <4>1
      <4> QED
        BY <2>0, <4>1, <4>2
    <3> QED
      BY <2>6, <3>1, <3>2
  <2>7. ASSUME NEW c \in CallbackWorkers, CallbackFail(c) PROVE HandInv'
    <3>1. hand[c] \in Jobs
      BY <2>7 DEF CallbackFail, Go
    <3>2. Append(queueOutput, hand[c]) \in Seq(Jobs)
      BY <3>1
    <3> QED
      BY <2>7, <3>2 DEF CallbackFail, PutBack, Go
  <2>8. ASSUME NEW j \in Jobs, AddJob(j) PROVE HandInv'
    <3>1. Append(queueProcess, j) \in Seq(Jobs)
      OBVIOUS
    <3>2. /\ queueProcess' = Append(queueProcess, j)
          /\ UNCHANGED <<queueOutput, callback, writer, status, hand, phase>>
          /\ NotifyOne(ProcessWorkers)
      BY <2>8 DEF AddJob
    <3>3. CASE UNCHANGED place
      BY <3>1, <3>2, <3>3
    <3>4. ASSUME NEW w \in ProcessWorkers, place[w] = "asleep",
                 place' = [place EXCEPT ![w] = "lock"]
          PROVE  HandInv'
      <4>1. /\ place'[w] = "lock" /\ hand[w] = NoJob
            /\ \A v \in Workers \ {w} : place'[v] = place[v]
        BY <3>4
      <4> QED
        BY <2>0, <3>1, <3>2, <4>1
    <3> QED
      BY <3>2, <3>3, <3>4 DEF NotifyOne
  <2>9. CASE GetProduct
    <3>1. Tail(queueOutput) \in Seq(Jobs)
      BY <2>9 DEF GetProduct
    <3> QED
      BY <2>9, <3>1 DEF GetProduct
  <2>10. CASE \/ \E b \in {"set", "reset"} : SetCallback(b)
              \/ SetCallbackStore \/ Destroyed \/ UNCHANGED vars
              \/ \E kind \in Kinds, n \in Counts : SetWorkerCount(kind, n)
    BY <2>10 DEF SetCallback, SetCallbackStore, Destroyed, vars, SetWorkerCount
  <2>11. CASE Hire
    <3>1. PICK w \in Workers :
            /\ place[w] = "none" /\ place' = [place EXCEPT ![w] = "top"]
            /\ status' = [status EXCEPT ![w] = "IDLE"]
      BY <2>11, Zenon DEF Hire, Go, Pool
    <3> QED
      BY <2>11, <3>1 DEF Hire
  <2>12. CASE Enlist \/ HireDone \/ FireNext \/ FireQuit
    BY <2>12 DEF Enlist, HireDone, FireNext, FireQuit
  <2>13. CASE FireNotify
    <3>1. /\ \A w \in Workers :
               place'[w] = place[w] \/ (place[w] = "asleep" /\ place'[w] = "lock")
          /\ UNCHANGED <<queues, cbVars, phase, status, hand>>
      BY <2>13 DEF FireNotify, FireNotifies
    <3> QED
      BY <3>1
  <2>14. CASE FireJoin
    <3>1. status[Fired] = "EXITED" /\ place' = [place EXCEPT ![Fired] = "none"]
          /\ UNCHANGED <<queues, cbVars, phase, status, hand>>
      BY <2>14 DEF FireJoin
    <3>2. Fired \in Workers
      BY <2>14 DEF FireJoin, Fired, ListsHoldStaff, OnlyFiredLeaves
    <3>3. place[Fired] \in {"exited", "none"}
      BY <3>1, <3>2 DEF OnlyFiredLeaves
    <3>4. \A w \in Workers : /\ w # Fired => place'[w] = place[w]
                             /\ w = Fired => place'[w] = "none" /\ hand[w] = NoJob
      BY <3>1, <3>2, <3>3
    <3> QED
      BY <3>1, <3>4
  <2>15. CASE DestroyInput \/ DestroyOutput \/ DestroyEnd
    <3>1. /\ queueProcess' = <<>> \/ queueProcess' = queueProcess
          /\ queueOutput' = <<>> \/ queueOutput' = queueOutput
          /\ phase' \in {"process", "output", "destroyed"}
      BY <2>15 DEF DestroyInput, DestroyOutput, DestroyEnd
    <3>2. UNCHANGED <<cbVars, place, status, hand>>
      BY <2>15 DEF DestroyInput, DestroyOutput, DestroyEnd
    <3>3. <<>> \in Seq(Jobs)
      OBVIOUS
    <3>4. queueProcess' \in Seq(Jobs) /\ queueOutput' \in Seq(Jobs)
      BY <3>1, <3>3, Zenon
    <3> QED
      BY <3>1, <3>2, <3>4
  <2> QED
    BY <2>1, <2>2, <2>3, <2>4, <2>5, <2>6, <2>7, <2>8, <2>9, <2>10, <2>11, <2>12, <2>13,
       <2>14, <2>15
    DEF Next, ProcessStep, CallbackStep, HireFire, Destroy
<1> QED
  BY <1>1, <1>2, StaffCorrect, PTL DEF Spec

(* Every variable keeps its type, the lists of the staff hold running      *)
(* workers of their kind, and a worker's hand agrees with its place.       *)
THEOREM TypeCorrect == Spec => []TypeOK
<1>1. StaffInv /\ HandInv => TypeOK
  BY DEF StaffInv, StaffTypes, ListsHoldStaff, HandInv, Holding, TypeOK, SeqRange
<1> QED
  BY <1>1, StaffCorrect, HandsCorrect, PTL

(* When getQueueCount shows nothing pending and nothing processing, no     *)
(* process worker has a job in its hands.                                  *)
THEOREM IdleIsProduced == Spec => []IdleMeansProduced
<1>1. StaffInv /\ HandInv => IdleMeansProduced
  <2> SUFFICES ASSUME StaffInv, HandInv, mgr.at = "idle", NothingProcessing,
                      NEW w \in ProcessWorkers, hand[w] # NoJob
               PROVE  FALSE
    BY DEF IdleMeansProduced, Queried
  <2>1. place[w] = "process" /\ status[w] = "BUSY"
    BY DEF HandInv, Holding, Workers
  <2>2. Unlisted("process", w)
    BY <2>1 DEF Unlisted, NothingProcessing, Pool, SeqRange
  <2> QED
    BY <2>2 DEF StaffInv, OneUnlisted, Kinds, Workers
<1> QED
  BY <1>1, StaffCorrect, HandsCorrect, PTL
-----------------------------------------------------------------------------
(* The jobs' notifications.                                                *)

Idling == {"decided", "asleep"}

(* A process worker decides to sleep on an empty queue only, and keeps the *)
(* mutex until it sleeps; one that is being fired does not sleep once its  *)
(* notify_all has been sent, so a notify_one cannot be lost to it.         *)
WakeInv ==
  /\ (\E w \in ProcessWorkers : place[w] = "decided") => queueProcess = <<>>
  /\ \A w \in ProcessWorkers :
       quit[w] /\ place[w] \in Idling => mgr.at = "notify" /\ mgr.kind = "process"
  /\ queueProcess # <<>> /\ Staying # {} =>
       \/ \E w \in Staying : place[w] \notin Idling
       \/ mgr.at = "notify" /\ mgr.kind = "process"

(* A job never waits for workers that all sleep, provided that the 100 ms  *)
(* of ~threadInfo are enough to fall asleep.                               *)
THEOREM JobsWakeAWorker == ASSUME DelayCoversSleep PROVE Spec => []JobsReachAWorker
<1> USE PipelineAssumption DEF Staying, Idling, Workers
<1>1. Init => WakeInv
  <2> SUFFICES ASSUME Init PROVE WakeInv
    OBVIOUS
  <2>1. /\ queueProcess = <<>> /\ \A w \in ProcessWorkers : place[w] \in {"top", "none"}
    BY DEF Init
  <2> QED
    BY <2>1 DEF WakeInv
<1>2. StaffInv /\ WakeInv /\ [Next]_vars => WakeInv'
  <2> SUFFICES ASSUME StaffInv, WakeInv, [Next]_vars PROVE WakeInv'
    OBVIOUS
  <2> USE DEF workerVars, queues, cbVars, mgrVars, history
  <2>0. /\ place \in [Workers -> Places] /\ quit \in [Workers -> BOOLEAN]
        /\ mgr.kind \in Kinds
        /\ mgr \in [at : {"idle", "hire", "enlist", "fire", "firing", "notify"},
                    kind : Kinds, count : Nat]
        /\ \A w \in Workers : place[w] = "exited" => quit[w]
        /\ \A w \in Workers : Leaving(w) => mgr.at \in {"firing", "notify"} /\ w = Fired
        /\ mgr.at \in {"firing", "notify"} => Fired \in Pool(mgr.kind)
    <3>1. mgr.at \in {"firing", "notify"} => Fired \in Pool(mgr.kind)
      BY DEF StaffInv, StaffTypes, ListsHoldStaff, OnlyFiredLeaves, Fired
    <3> QED
      BY <3>1 DEF StaffInv, StaffTypes, OnlyFiredLeaves
  \* Nothing to see for the process workers.
  <2>1. ASSUME queueProcess' = queueProcess \/ queueProcess' = <<>>,
               mgr.at = "notify" /\ mgr.kind = "process"
                 => mgr'.at = "notify" /\ mgr'.kind = "process",
               \A w \in ProcessWorkers : place'[w] = place[w] /\ quit'[w] = quit[w]
        PROVE  WakeInv'
    BY <2>1 DEF WakeInv
  \* One worker moves, other than to sleep.
  <2>2. ASSUME NEW w \in ProcessWorkers, place[w] # "none",
               \A v \in ProcessWorkers \ {w} : place'[v] = place[v],
               place'[w] \notin {"none", "decided", "asleep"},
               queueProcess' = queueProcess \/ queueProcess' = Tail(queueProcess),
               UNCHANGED <<quit, mgr>>,
               queueProcess = <<>> => queueProcess' = <<>>,
               place'[w] = "exited" => quit[w]
        PROVE  WakeInv'
    <3>1. CASE quit[w]
      <4>1. Staying' = Staying /\ w \notin Staying
        BY <2>2, <3>1
      <4>2. \A v \in Staying : place'[v] = place[v]
        BY <2>2, <4>1
      <4> QED
        BY <2>2, <3>1, <4>1, <4>2 DEF WakeInv
    <3>2. CASE ~quit[w]
      <4>1. w \in Staying' /\ place'[w] \notin Idling
        BY <2>2, <3>2
      <4> QED
        BY <2>2, <4>1 DEF WakeInv
    <3> QED
      BY <3>1, <3>2
  <2>3. ASSUME NEW w \in ProcessWorkers, LoopHead(w) \/ SpuriousWakeup(w) PROVE WakeInv'
    <3>1. /\ place[w] \in {"top", "asleep"} /\ UNCHANGED <<quit, mgr, queueProcess>>
          /\ \A v \in ProcessWorkers \ {w} : place'[v] = place[v]
          /\ place'[w] \in {"exited", "lock"} /\ (place'[w] = "exited" => quit[w])
      BY <2>0, <2>3 DEF LoopHead, SpuriousWakeup, Go
    <3> QED
      BY <2>2, <3>1
  <2>4. ASSUME NEW w \in ProcessWorkers, Sleep(w) PROVE WakeInv'
    <3>1. /\ place[w] = "decided" /\ place' = [place EXCEPT ![w] = "asleep"]
          /\ UNCHANGED <<quit, mgr, queueProcess>>
      BY <2>4 DEF Sleep, Go
    <3>2. queueProcess' = <<>>
      BY <3>1 DEF WakeInv
    <3>3. \A v \in ProcessWorkers : place'[v] \in Idling <=> place[v] \in Idling
      BY <2>0, <3>1
    <3> QED
      BY <3>1, <3>2, <3>3 DEF WakeInv
  <2>5. ASSUME NEW w \in ProcessWorkers, ProcessWait(w) PROVE WakeInv'
    <3>1. CASE quit[w] /\ Leave(w)
      <4>1. /\ place[w] = "lock" /\ place' = [place EXCEPT ![w] = "exited"]
            /\ UNCHANGED <<quit, mgr, queueProcess>>
        BY <3>1 DEF Leave, Go
      <4>2. place'[w] = "exited" /\ \A v \in ProcessWorkers \ {w} : place'[v] = place[v]
        BY <2>0, <4>1
      <4> QED
        BY <2>2, <3>1, <4>1, <4>2
    <3>2. CASE ~quit[w] /\ queueProcess # <<>> /\ TakeJob(w)
      <4>1. /\ place[w] = "lock" /\ place' = [place EXCEPT ![w] = "process"]
            /\ UNCHANGED <<quit, mgr>> /\ queueProcess' = Tail(queueProcess)
        BY <3>2 DEF TakeJob, Go
      <4>2. place'[w] = "process" /\ \A v \in ProcessWorkers \ {w} : place'[v] = place[v]
        BY <2>0, <4>1
      <4> QED
        BY <2>2, <3>2, <4>1, <4>2
    <3>3. CASE ~quit[w] /\ queueProcess = <<>> /\ Decide(w)
      <4>1. /\ place' = [place EXCEPT ![w] = "decided"]
            /\ UNCHANGED <<quit, mgr, queueProcess>>
        BY <3>3 DEF Decide, Go
      <4> QED
        BY <2>0, <3>3, <4>1 DEF WakeInv
    <3> QED
      BY <2>5, <3>1, <3>2, <3>3 DEF ProcessWait
  <2>6. ASSUME NEW w \in ProcessWorkers, PushProduct(w) \/ LookForCallback(w) \/ NotifyFinish(w)
        PROVE  WakeInv'
    <3>1. CASE PushProduct(w) \/ LookForCallback(w)
      <4>1. /\ place[w] \in {"process", "pushed"} /\ UNCHANGED <<quit, mgr, queueProcess>>
            /\ \A v \in ProcessWorkers \ {w} : place'[v] = place[v]
            /\ place'[w] \in {"pushed", "notify", "top"}
        BY <2>0, <3>1 DEF PushProduct, LookForCallback, Go
      <4> QED
        BY <2>2, <4>1
    <3>2. CASE NotifyFinish(w)
      <4>1. /\ place[w] = "notify" /\ UNCHANGED <<quit, mgr, queueProcess>>
            /\ \A v \in ProcessWorkers \ {w} : place'[v] = place[v]
            /\ place'[w] = "top"
        BY <2>0, <3>2 DEF NotifyFinish
      <4> QED
        BY <2>2, <4>1
    <3> QED
      BY <2>6, <3>1, <3>2
  <2>7. ASSUME NEW c \in CallbackWorkers, CallbackStep(c) \/ SpuriousWakeup(c) PROVE WakeInv'
    <3>1. /\ UNCHANGED <<quit, mgr, queueProcess>>
          /\ \A v \in ProcessWorkers : place'[v] = place[v]
      BY <2>0, <2>7 DEF CallbackStep, LoopHead, CallbackWait, Leave, TakeProduct, Decide, Sleep,
                        Call, Returned, CallbackFail, SpuriousWakeup, Go
    <3> QED
      BY <2>1, <3>1
  <2>8. ASSUME NEW j \in Jobs, AddJob(j) PROVE WakeInv'
    <3>1. /\ UNCHANGED <<quit, mgr>>
          /\ \A w \in ProcessWorkers : place[w] # "decided"
      BY <2>8 DEF AddJob, MutexProcessFree
    <3>2. CASE \A w \in ProcessWorkers : place[w] # "asleep"
      <4>1. place' = place
        BY <2>8, <3>2 DEF AddJob, NotifyOne
      <4> QED
        BY <3>1, <3>2, <4>1 DEF WakeInv
    <3>3. CASE \E w \in ProcessWorkers : place[w] = "asleep"
      <4>1. PICK w \in ProcessWorkers :
              place[w] = "asleep" /\ place' = [place EXCEPT ![w] = "lock"]
        BY <2>8, <3>3 DEF AddJob, NotifyOne
      <4>2. place'[w] = "lock" /\ \A v \in ProcessWorkers \ {w} : place'[v] = place[v]
        BY <2>0, <4>1
      <4>3. CASE quit[w]
        BY <3>1, <4>1, <4>2, <4>3 DEF WakeInv
      <4>4. CASE ~quit[w]
        <5>1. w \in Staying' /\ place'[w] \notin Idling
          BY <3>1, <4>2, <4>4
        <5> QED
          BY <3>1, <4>1, <4>2, <5>1 DEF WakeInv
      <4> QED
        BY <4>3, <4>4
    <3> QED
      BY <3>2, <3>3
  <2>9. CASE \/ GetProduct \/ SetCallbackStore \/ Destroyed \/ UNCHANGED vars
             \/ \E b \in {"set", "reset"} : SetCallback(b)
             \/ \E kind \in Kinds, n \in Counts : SetWorkerCount(kind, n)
    BY <2>1, <2>9 DEF GetProduct, SetCallbackStore, Destroyed, vars, SetCallback, SetWorkerCount
  <2>10. CASE Enlist \/ HireDone \/ FireNext \/ DestroyInput \/ DestroyOutput \/ DestroyEnd
    <3>1. /\ queueProcess' = queueProcess \/ queueProcess' = <<>>
          /\ mgr.at # "notify" /\ UNCHANGED <<place, quit>>
      BY <2>10 DEF Enlist, HireDone, FireNext, DestroyInput, DestroyOutput, DestroyEnd
    <3> QED
      BY <2>1, <3>1
  <2>11. CASE Hire
    <3>1. mgr.at = "hire" /\ mgr' = [mgr EXCEPT !.at = "enlist"] /\ UNCHANGED queueProcess
      BY <2>11 DEF Hire
    <3>2. PICK w \in Pool(mgr.kind) :
            /\ place[w] = "none" /\ place' = [place EXCEPT ![w] = "top"]
            /\ quit' = [quit EXCEPT ![w] = FALSE]
      BY <2>11, Zenon DEF Hire, Go
    <3>3. \A v \in ProcessWorkers : v # w => place'[v] = place[v] /\ quit'[v] = quit[v]
      BY <2>0, <3>2
    <3>4. CASE w \in ProcessWorkers
      <4>1. place'[w] = "top" /\ ~quit'[w]
        BY <2>0, <3>2, <3>4
      <4>2. w \in Staying' /\ place'[w] \notin Idling
        BY <3>4, <4>1
      <4> QED
        BY <3>1, <3>3, <4>1, <4>2 DEF WakeInv
    <3>5. CASE w \notin ProcessWorkers
      BY <2>1, <3>1, <3>3, <3>5
    <3> QED
      BY <3>4, <3>5
  <2>12. CASE FireQuit
    <3>1. /\ mgr.at = "firing" /\ mgr'.at = "notify" /\ mgr'.kind = mgr.kind
          /\ quit' = [quit EXCEPT ![Fired] = TRUE] /\ UNCHANGED <<place, queueProcess>>
      BY <2>0, <2>12 DEF FireQuit
    <3>2. CASE mgr.kind = "process"
      BY <3>1, <3>2 DEF WakeInv
    <3>3. CASE mgr.kind # "process"
      <4>1. \A v \in ProcessWorkers : quit'[v] = quit[v]
        BY <2>0, <3>1, <3>3 DEF Kinds, Pool
      <4> QED
        BY <2>1, <3>1, <4>1
    <3> QED
      BY <3>2, <3>3
  <2>13. CASE FireNotify
    <3>1. /\ mgr.at = "notify" /\ mgr'.at = "firing" /\ mgr'.kind = mgr.kind
          /\ place[Fired] # "decided"
          /\ place' = [w \in Workers |-> IF w \in Pool(mgr.kind) /\ place[w] = "asleep"
                                         THEN "lock" ELSE place[w]]
          /\ UNCHANGED <<quit, queueProcess>>
      BY <2>0, <2>13 DEF FireNotify, FireNotifies
    <3>2. CASE mgr.kind = "process"
      <4>1. \A v \in ProcessWorkers :
              /\ place'[v] # "asleep" /\ (place'[v] = "decided" <=> place[v] = "decided")
              /\ (place'[v] = "none" <=> place[v] = "none")
        BY <3>1, <3>2 DEF Pool
      <4>2. \A v \in ProcessWorkers : ~(quit'[v] /\ place'[v] \in Idling)
        BY <2>0, <3>1, <4>1 DEF Leaving
      <4> QED
        BY <3>1, <4>1, <4>2 DEF WakeInv
    <3>3. CASE mgr.kind # "process"
      <4>1. \A v \in ProcessWorkers : place'[v] = place[v]
        BY <3>1, <3>3 DEF Pool
      <4> QED
        BY <2>1, <3>1, <3>3, <4>1
    <3> QED
      BY <3>2, <3>3
  <2>14. CASE FireJoin
    <3>1. /\ mgr.at = "firing" /\ status[Fired] = "EXITED"
          /\ place' = [place EXCEPT ![Fired] = "none"] /\ UNCHANGED <<quit, queueProcess>>
      BY <2>14 DEF FireJoin
    <3>2. Fired \in Workers /\ (place[Fired] = "exited" => quit[Fired])
      BY <2>0, <3>1 DEF Pool
    <3>3. place[Fired] \in {"exited", "none"}
      BY <3>1, <3>2 DEF StaffInv, OnlyFiredLeaves
    <3>4. \A v \in ProcessWorkers : /\ v # Fired => place'[v] = place[v]
                                   /\ v = Fired => place'[v] = "none"
      BY <2>0, <3>1, <3>2
    <3>5. Staying' = Staying /\ \A v \in Staying : place'[v] = place[v]
      BY <3>1, <3>2, <3>3, <3>4
    <3> QED
      BY <3>1, <3>3, <3>4, <3>5 DEF WakeInv
  <2> QED
    BY <2>3, <2>4, <2>5, <2>6, <2>7, <2>8, <2>9, <2>10, <2>11, <2>12, <2>13, <2>14
    DEF Next, ProcessStep, HireFire, Destroy
<1>3. WakeInv => JobsReachAWorker
  BY DEF WakeInv, JobsReachAWorker
<1> QED
  BY <1>1, <1>2, <1>3, StaffCorrect, PTL DEF Spec
-----------------------------------------------------------------------------
(* Conservation of jobs.                                                   *)

Once(q) == \A i, j \in DOMAIN q : q[i] = q[j] => i = j

(* Appending a new element.                                                *)
LEMMA RangeOfAppend ==
  ASSUME NEW q \in Seq(Jobs), NEW x \in Jobs, Once(q), x \notin SeqRange(q)
  PROVE  /\ SeqRange(Append(q, x)) = SeqRange(q) \cup {x}
         /\ Once(Append(q, x))
         /\ Len(Append(q, x)) = Len(q) + 1
<1>1. /\ DOMAIN Append(q, x) = DOMAIN q \cup {Len(q) + 1} /\ Len(q) + 1 \notin DOMAIN q
      /\ Append(q, x)[Len(q) + 1] = x
      /\ \A i \in DOMAIN q : Append(q, x)[i] = q[i]
  OBVIOUS
<1> QED
  BY <1>1 DEF SeqRange, Once

(* Removing the head.                                                      *)
LEMMA RangeOfTail ==
  ASSUME NEW q \in Seq(Jobs), q # <<>>, Once(q)
  PROVE  /\ SeqRange(Tail(q)) = SeqRange(q) \ {Head(q)} /\ Head(q) \in SeqRange(q)
         /\ Once(Tail(q))
         /\ Len(Tail(q)) = Len(q) - 1
<1>1. /\ Head(q) = q[1] /\ 1 \in DOMAIN q /\ Tail(q) \in Seq(Jobs)
      /\ \A i \in DOMAIN Tail(q) : i \in Nat /\ i + 1 \in DOMAIN q /\ i + 1 # 1
                                  /\ Tail(q)[i] = q[i + 1]
      /\ \A i \in DOMAIN q : i # 1 => i - 1 \in DOMAIN Tail(q) /\ q[i] = Tail(q)[i - 1]
      /\ Len(Tail(q)) = Len(q) - 1
  OBVIOUS
<1>2. Once(Tail(q))
  <2> SUFFICES ASSUME NEW i \in DOMAIN Tail(q), NEW j \in DOMAIN Tail(q),
                      Tail(q)[i] = Tail(q)[j]
               PROVE  i = j
    BY DEF Once
  <2>1. i + 1 = j + 1 /\ i \in Nat /\ j \in Nat
    BY <1>1 DEF Once
  <2> QED
    BY <2>1
<1>3. \A x \in SeqRange(Tail(q)) : x \in SeqRange(q) /\ x # Head(q)
  BY <1>1 DEF SeqRange, Once
<1>4. \A x \in SeqRange(q) : x = Head(q) \/ x \in SeqRange(Tail(q))
  <2> SUFFICES ASSUME NEW i \in DOMAIN q, i # 1 PROVE q[i] \in SeqRange(Tail(q))
    BY <1>1 DEF SeqRange
  <2> QED
    BY <1>1 DEF SeqRange
<1> QED
  BY <1>1, <1>2, <1>3, <1>4 DEF SeqRange

(* A sequence without repetitions has as many elements as places.          *)
LEMMA RangeSize ==
  ASSUME NEW q \in Seq(Jobs), Once(q)
  PROVE  IsFiniteSet(SeqRange(q)) /\ Cardinality(SeqRange(q)) = Len(q)
<1>0. Len(q) \in Nat /\ DOMAIN q = 1 .. Len(q)
  OBVIOUS
<1>1. q \in Bijection(1 .. Len(q), SeqRange(q))
  <2>1. q \in [1 .. Len(q) -> SeqRange(q)]
    BY <1>0 DEF SeqRange
  <2>2. \A x \in SeqRange(q) : \E i \in 1 .. Len(q) : q[i] = x
    BY <1>0 DEF SeqRange
  <2>3. \A i, j \in 1 .. Len(q) : q[i] = q[j] => i = j
    BY <1>0 DEF Once
  <2> QED
    BY <2>1, <2>2, <2>3, Fun_IsBij
<1>2. ExistsBijection(1 .. Len(q), SeqRange(q))
  BY <1>1 DEF ExistsBijection
<1>3. IsFiniteSet(1 .. Len(q)) /\ Cardinality(1 .. Len(q)) = Len(q)
  BY <1>0, FS_Interval
<1> QED
  BY <1>2, <1>3, FS_Bijection

Busy == {w \in Workers : hand[w] # NoJob}
Pending == SeqRange(queueProcess)
Output == SeqRange(queueOutput)

\* No job is in two places.
Apart ==
  /\ Once(queueProcess) /\ Once(queueOutput)
  /\ \A v, w \in Busy : hand[v] = hand[w] => v = w
  /\ \A j \in Pending : j \notin Output \cup Hands \cup delivered \cup discarded
  /\ \A j \in Output : j \notin Hands \cup delivered \cup discarded
  /\ \A j \in Hands : j \notin delivered \cup discarded
  /\ \A j \in delivered : j \notin discarded

\* Every job that was added is in one.
Accounted ==
  added = Pending \cup Output \cup Hands \cup delivered \cup discarded

\* The places can be counted, and the counts add up.
Counted ==
  /\ IsFiniteSet(Busy) /\ IsFiniteSet(added)
  /\ IsFiniteSet(delivered) /\ IsFiniteSet(discarded)
  /\ Len(queueProcess) + Len(queueOutput) + Cardinality(Busy)
       + Cardinality(delivered) + Cardinality(discarded)
       = Cardinality(added)

JobInv == Apart /\ Accounted /\ Counted

(* A worker takes a job that nobody holds.                                 *)
LEMMA Taking ==
  ASSUME HandInv, Apart, IsFiniteSet(Busy), NEW w \in Workers, hand[w] = NoJob,
         NEW x \in Jobs \ Hands, hand' = [hand EXCEPT ![w] = x]
  PROVE  /\ Hands' = Hands \cup {x}
         /\ \A u, v \in Busy' : hand'[u] = hand'[v] => u = v
         /\ IsFiniteSet(Busy') /\ Cardinality(Busy') = Cardinality(Busy) + 1
<1>1. /\ x # NoJob /\ hand'[w] = x /\ \A v \in Workers \ {w} : hand'[v] = hand[v]
  BY PipelineAssumption DEF HandInv
<1>2. Busy' = Busy \cup {w} /\ w \notin Busy
  BY <1>1 DEF Busy
<1>3. Hands' = Hands \cup {x}
  BY <1>1 DEF Hands
<1>4. \A v \in Busy : hand[v] # x
  BY DEF Busy, Hands
<1>5. \A u, v \in Busy' : hand'[u] = hand'[v] => u = v
  BY <1>1, <1>2, <1>4 DEF Apart, Busy
<1> QED
  BY <1>2, <1>3, <1>5, FS_AddElement

(* A worker passes on what it holds.                                       *)
LEMMA Giving ==
  ASSUME HandInv, Apart, IsFiniteSet(Busy), NEW w \in Workers, hand[w] # NoJob,
         hand' = [hand EXCEPT ![w] = NoJob]
  PROVE  /\ Hands' = Hands \ {hand[w]} /\ hand[w] \in Hands /\ hand[w] \in Jobs
         /\ \A u, v \in Busy' : hand'[u] = hand'[v] => u = v
         /\ IsFiniteSet(Busy') /\ Cardinality(Busy') = Cardinality(Busy) - 1
<1>1. /\ hand'[w] = NoJob /\ \A v \in Workers \ {w} : hand'[v] = hand[v]
      /\ hand[w] \in Jobs
  BY DEF HandInv
<1>2. Busy' = Busy \ {w} /\ w \in Busy
  BY <1>1 DEF Busy
<1>3. hand[w] \in Hands
  BY DEF Hands
<1>4. ASSUME NEW x \in Hands' PROVE x \in Hands \ {hand[w]}
  <2>1. PICK v \in Workers : x = hand'[v] /\ x # NoJob
    BY <1>4 DEF Hands
  <2>2. v # w /\ x = hand[v] /\ v \in Busy
    BY <1>1, <2>1 DEF Busy
  <2> QED
    BY <1>2, <2>1, <2>2 DEF Apart, Hands
<1>5. ASSUME NEW x \in Hands \ {hand[w]} PROVE x \in Hands'
  <2>1. PICK v \in Workers : x = hand[v] /\ x # NoJob
    BY <1>5 DEF Hands
  <2>2. v # w
    BY <1>5, <2>1
  <2> QED
    BY <1>1, <2>1, <2>2 DEF Hands
<1>6. Hands' = Hands \ {hand[w]}
  BY <1>4, <1>5
<1>7. \A u, v \in Busy' : hand'[u] = hand'[v] => u = v
  BY <1>1, <1>2 DEF Apart, Busy
<1> QED
  BY <1>1, <1>2, <1>3, <1>6, <1>7, FS_RemoveElement

(* JobInv is inductive, given the workers' hands: every step moves one job *)
(* from one place to the next, but for the destructor, which moves all     *)
(* that a queue holds.                                                     *)
LEMMA JobsCorrect == Spec => []JobInv
<1>1. Init => JobInv
  <2> SUFFICES ASSUME Init PROVE JobInv
    OBVIOUS
  <2>1. /\ queueProcess = <<>> /\ queueOutput = <<>>
        /\ \A w \in Workers : hand[w] = NoJob
        /\ added = {} /\ delivered = {} /\ discarded = {}
    BY DEF Init
  <2>2. Busy = {} /\ Hands = {}
    BY <2>1 DEF Busy, Hands
  <2>3. SeqRange(<<>>) = {} /\ Once(<<>>) /\ Len(<<>>) = 0
    BY DEF SeqRange, Once
  <2> QED
    BY <2>1, <2>2, <2>3, FS_EmptySet DEF JobInv, Apart, Accounted, Counted, Pending, Output
<1>2. HandInv /\ HandInv' /\ JobInv /\ [Next]_vars => JobInv'
  <2> SUFFICES ASSUME HandInv, HandInv', JobInv, [Next]_vars PROVE JobInv'
    OBVIOUS
  <2> USE DEF workerVars, queues, cbVars, mgrVars, history, JobInv
  <2>0. /\ Apart /\ Accounted /\ Counted
        /\ queueProcess \in Seq(Jobs) /\ queueOutput \in Seq(Jobs)
        /\ Once(queueProcess) /\ Once(queueOutput)
        /\ IsFiniteSet(Busy) /\ IsFiniteSet(added)
        /\ IsFiniteSet(delivered) /\ IsFiniteSet(discarded)
        /\ ProcessWorkers \subseteq Workers /\ CallbackWorkers \subseteq Workers
    BY DEF HandInv, Apart, Counted, Workers
  <2>n. /\ Len(queueProcess) \in Nat /\ Len(queueOutput) \in Nat
        /\ Cardinality(Busy) \in Nat /\ Cardinality(added) \in Nat
        /\ Cardinality(delivered) \in Nat /\ Cardinality(discarded) \in Nat
    BY <2>0, FS_CardinalityType
  <2>1. ASSUME UNCHANGED <<queues, hand, history>> PROVE JobInv'
    BY <2>1 DEF Apart, Accounted, Counted, Busy, Hands, Pending, Output
  <2>2. ASSUME NEW j \in Jobs, AddJob(j) PROVE JobInv'
    <3>1. /\ j \notin added /\ queueProcess' = Append(queueProcess, j)
          /\ added' = added \cup {j}
          /\ UNCHANGED <<queueOutput, hand, delivered, discarded>>
      BY <2>2 DEF AddJob
    <3>2. j \notin Pending
      BY <3>1 DEF Accounted
    <3>3. /\ Pending' = Pending \cup {j} /\ Once(queueProcess')
          /\ Len(queueProcess') = Len(queueProcess) + 1
      BY <2>0, <3>1, <3>2, RangeOfAppend DEF Pending
    <3>4. UNCHANGED <<Busy, Hands, Output>>
      BY <3>1 DEF Busy, Hands, Output
    <3>5. IsFiniteSet(added') /\ Cardinality(added') = Cardinality(added) + 1
      BY <2>0, <3>1, FS_AddElement
    <3>6. Apart'
      BY <3>1, <3>2, <3>3, <3>4 DEF Apart, Accounted
    <3>7. Accounted'
      BY <3>1, <3>3, <3>4 DEF Accounted
    <3>8. Counted'
      BY <2>n, <3>1, <3>3, <3>4, <3>5 DEF Counted
    <3> QED
      BY <3>6, <3>7, <3>8
  <2>3. ASSUME NEW w \in ProcessWorkers, place[w] = "lock", queueProcess # <<>>, TakeJob(w)
        PROVE  JobInv'
    <3> DEFINE x == Head(queueProcess)
    <3>1. /\ hand' = [hand EXCEPT ![w] = x] /\ queueProcess' = Tail(queueProcess)
          /\ UNCHANGED <<queueOutput, history>>
      BY <2>3 DEF TakeJob
    <3>2. /\ Pending' = Pending \ {x} /\ x \in Pending /\ Once(queueProcess')
          /\ Len(queueProcess') = Len(queueProcess) - 1
      BY <2>0, <2>3, <3>1, RangeOfTail DEF Pending
    <3>3. hand[w] = NoJob /\ x \in Jobs \ Hands
      <4>1. x \in Jobs
        BY <2>0, <2>3
      <4> QED
        BY <2>0, <2>3, <3>2, <4>1 DEF HandInv, Holding, Apart
    <3>4. /\ Hands' = Hands \cup {x}
          /\ \A u, v \in Busy' : hand'[u] = hand'[v] => u = v
          /\ IsFiniteSet(Busy') /\ Cardinality(Busy') = Cardinality(Busy) + 1
      BY <2>0, <3>1, <3>3, Taking
    <3>5. Output' = Output
      BY <3>1 DEF Output
    <3>6. Apart'
      BY <3>1, <3>2, <3>4, <3>5 DEF Apart
    <3>7. Accounted'
      BY <3>1, <3>2, <3>4, <3>5 DEF Accounted
    <3>8. Counted'
      <4>1. UNCHANGED <<queueOutput, added, delivered, discarded>>
        BY <3>1
      <4>2. Len(queueProcess') = Len(queueProcess) - 1 /\ Cardinality(Busy') = Cardinality(Busy) + 1
        BY <3>2, <3>4
      <4> QED
        BY <2>n, <3>4, <4>1, <4>2 DEF Counted
    <3> QED
      BY <3>6, <3>7, <3>8
  <2>4. ASSUME NEW w \in Workers, place[w] \in {"process", "fail"},
               hand' = [hand EXCEPT ![w] = NoJob],
               queueOutput' = Append(queueOutput, hand[w]),
               UNCHANGED <<queueProcess, history>>
        PROVE  JobInv'
    <3> DEFINE x == hand[w]
    <3>1. x # NoJob
      BY <2>4 DEF HandInv, Holding
    <3>2. /\ Hands' = Hands \ {x} /\ x \in Hands /\ x \in Jobs
          /\ \A u, v \in Busy' : hand'[u] = hand'[v] => u = v
          /\ IsFiniteSet(Busy') /\ Cardinality(Busy') = Cardinality(Busy) - 1
      BY <2>0, <2>4, <3>1, Giving
    <3>3. x \notin Output
      BY <3>2 DEF Apart
    <3>4. /\ Output' = Output \cup {x} /\ Once(queueOutput')
          /\ Len(queueOutput') = Len(queueOutput) + 1
      BY <2>0, <2>4, <3>2, <3>3, RangeOfAppend DEF Output
    <3>5. Pending' = Pending
      BY <2>4 DEF Pending
    <3>6. Apart'
      BY <2>4, <3>2, <3>4, <3>5 DEF Apart
    <3>7. Accounted'
      BY <2>4, <3>2, <3>4, <3>5 DEF Accounted
    <3>8. Counted'
      BY <2>n, <2>4, <3>2, <3>4 DEF Counted
    <3> QED
      BY <3>6, <3>7, <3>8
  <2>5. ASSUME NEW c \in CallbackWorkers, place[c] = "lock", queueOutput # <<>>, TakeProduct(c)
        PROVE  JobInv'
    <3> DEFINE x == Head(queueOutput)
    <3>1. /\ hand' = [hand EXCEPT ![c] = x] /\ queueOutput' = Tail(queueOutput)
          /\ UNCHANGED <<queueProcess, history>>
      BY <2>5 DEF TakeProduct
    <3>2. /\ Output' = Output \ {x} /\ x \in Output /\ Once(queueOutput')
          /\ Len(queueOutput') = Len(queueOutput) - 1
      BY <2>0, <2>5, <3>1, RangeOfTail DEF Output
    <3>3. hand[c] = NoJob /\ x \in Jobs \ Hands
      <4>1. x \in Jobs
        BY <2>0, <2>5
      <4> QED
        BY <2>0, <2>5, <3>2, <4>1 DEF HandInv, Holding, Apart
    <3>4. /\ Hands' = Hands \cup {x}
          /\ \A u, v \in Busy' : hand'[u] = hand'[v] => u = v
          /\ IsFiniteSet(Busy') /\ Cardinality(Busy') = Cardinality(Busy) + 1
      BY <2>0, <3>1, <3>3, Taking
    <3>5. Pending' = Pending
      BY <3>1 DEF Pending
    <3>6. Apart'
      BY <3>1, <3>2, <3>4, <3>5 DEF Apart
    <3>7. Accounted'
      BY <3>1, <3>2, <3>4, <3>5 DEF Accounted
    <3>8. Counted'
      <4>1. UNCHANGED <<queueProcess, added, delivered, discarded>>
        BY <3>1
      <4>2. Len(queueOutput') = Len(queueOutput) - 1 /\ Cardinality(Busy') = Cardinality(Busy) + 1
        BY <3>2, <3>4
      <4> QED
        BY <2>n, <3>4, <4>1, <4>2 DEF Counted
    <3> QED
      BY <3>6, <3>7, <3>8
  <2>6. ASSUME NEW c \in CallbackWorkers, Returned(c) PROVE JobInv'
    <3> DEFINE x == hand[c]
    <3>1. /\ place[c] = "call" /\ hand' = [hand EXCEPT ![c] = NoJob]
          /\ delivered' = delivered \cup {x}
          /\ UNCHANGED <<queues, added, discarded>>
      BY <2>6 DEF Returned, Go
    <3>2. x # NoJob
      BY <2>0, <3>1 DEF HandInv, Holding
    <3>3. /\ Hands' = Hands \ {x} /\ x \in Hands
          /\ \A u, v \in Busy' : hand'[u] = hand'[v] => u = v
          /\ IsFiniteSet(Busy') /\ Cardinality(Busy') = Cardinality(Busy) - 1
      BY <2>0, <3>1, <3>2, Giving
    <3>4. x \notin delivered
      BY <3>3 DEF Apart
    <3>5. IsFiniteSet(delivered') /\ Cardinality(delivered') = Cardinality(delivered) + 1
      BY <2>0, <3>1, <3>4, FS_AddElement
    <3>6. UNCHANGED <<Pending, Output>>
      BY <3>1 DEF Pending, Output
    <3>7. Apart'
      BY <3>1, <3>3, <3>6 DEF Apart
    <3>8. Accounted'
      BY <3>1, <3>3, <3>6 DEF Accounted
    <3>9. Counted'
      <4>1. UNCHANGED <<queueProcess, queueOutput, added, discarded>>
        BY <3>1
      <4> QED
        BY <2>n, <3>3, <3>5, <4>1 DEF Counted
    <3> QED
      BY <3>7, <3>8, <3>9
  <2>7. CASE GetProduct
    <3> DEFINE x == Head(queueOutput)
    <3>1. /\ queueOutput # <<>> /\ queueOutput' = Tail(queueOutput)
          /\ delivered' = delivered \cup {x}
          /\ UNCHANGED <<queueProcess, hand, added, discarded>>
      BY <2>7 DEF GetProduct
    <3>2. /\ Output' = Output \ {x} /\ x \in Output /\ Once(queueOutput')
          /\ Len(queueOutput') = Len(queueOutput) - 1
      BY <2>0, <3>1, RangeOfTail DEF Output
    <3>3. x \notin delivered
      BY <3>2 DEF Apart
    <3>4. IsFiniteSet(delivered') /\ Cardinality(delivered') = Cardinality(delivered) + 1
      BY <2>0, <3>1, <3>3, FS_AddElement
    <3>5. UNCHANGED <<Pending, Hands, Busy>>
      BY <3>1 DEF Pending, Hands, Busy
    <3>6. Apart'
      BY <3>1, <3>2, <3>5 DEF Apart
    <3>7. Accounted'
      BY <3>1, <3>2, <3>5 DEF Accounted
    <3>8. Counted'
      BY <2>n, <3>1, <3>2, <3>4, <3>5 DEF Counted
    <3> QED
      BY <3>6, <3>7, <3>8
  <2>8. CASE DestroyInput
    <3>1. /\ queueProcess' = <<>> /\ discarded' = discarded \cup Pending
          /\ UNCHANGED <<queueOutput, hand, added, delivered>>
      BY <2>8 DEF DestroyInput, Pending
    <3>2. Pending' = {} /\ Once(queueProcess') /\ Len(queueProcess') = 0
      BY <3>1 DEF Pending, SeqRange, Once
    <3>3. IsFiniteSet(Pending) /\ Cardinality(Pending) = Len(queueProcess)
      BY <2>0, RangeSize DEF Pending
    <3>4. discarded \cap Pending = {}
      BY DEF Apart
    <3>5. /\ IsFiniteSet(discarded')
          /\ Cardinality(discarded') = Cardinality(discarded) + Len(queueProcess)
      <4>1. /\ IsFiniteSet(discarded \cup Pending)
            /\ Cardinality(discarded \cup Pending)
                 = Cardinality(discarded) + Cardinality(Pending) - Cardinality(discarded \cap Pending)
        BY <2>0, <3>3, FS_Union
      <4>2. Cardinality(discarded \cap Pending) = 0
        BY <3>4, FS_EmptySet
      <4> QED
        BY <2>n, <3>1, <3>3, <4>1, <4>2
    <3>6. UNCHANGED <<Output, Hands, Busy>>
      BY <3>1 DEF Output, Hands, Busy
    <3>7. Apart'
      BY <3>1, <3>2, <3>6 DEF Apart
    <3>8. Accounted'
      BY <3>1, <3>2, <3>6 DEF Accounted
    <3>9. Counted'
      BY <2>n, <3>1, <3>2, <3>5, <3>6 DEF Counted
    <3> QED
      BY <3>7, <3>8, <3>9
  <2>9. CASE DestroyOutput
    <3>1. /\ queueOutput' = <<>> /\ discarded' = discarded \cup Output
          /\ UNCHANGED <<queueProcess, hand, added, delivered>>
      BY <2>9 DEF DestroyOutput, Output
    <3>2. Output' = {} /\ Once(queueOutput') /\ Len(queueOutput') = 0
      BY <3>1 DEF Output, SeqRange, Once
    <3>3. IsFiniteSet(Output) /\ Cardinality(Output) = Len(queueOutput)
      BY <2>0, RangeSize DEF Output
    <3>4. discarded \cap Output = {}
      BY DEF Apart
    <3>5. /\ IsFiniteSet(discarded')
          /\ Cardinality(discarded') = Cardinality(discarded) + Len(queueOutput)
      <4>1. /\ IsFiniteSet(discarded \cup Output)
            /\ Cardinality(discarded \cup Output)
                 = Cardinality(discarded) + Cardinality(Output) - Cardinality(discarded \cap Output)
        BY <2>0, <3>3, FS_Union
      <4>2. Cardinality(discarded \cap Output) = 0
        BY <3>4, FS_EmptySet
      <4> QED
        BY <2>n, <3>1, <3>3, <4>1, <4>2
    <3>6. UNCHANGED <<Pending, Hands, Busy>>
      BY <3>1 DEF Pending, Hands, Busy
    <3>7. Apart'
      BY <3>1, <3>2, <3>6 DEF Apart
    <3>8. Accounted'
      BY <3>1, <3>2, <3>6 DEF Accounted
    <3>9. Counted'
      BY <2>n, <3>1, <3>2, <3>5, <3>6 DEF Counted
    <3> QED
      BY <3>7, <3>8, <3>9
  <2>10. ASSUME NEW w \in ProcessWorkers, ProcessStep(w) PROVE JobInv'
    <3>1. CASE LoopHead(w) \/ Sleep(w) \/ LookForCallback(w) \/ NotifyFinish(w)
      BY <2>1, <3>1 DEF LoopHead, Sleep, LookForCallback, NotifyFinish
    <3>2. CASE PushProduct(w)
      BY <2>0, <2>4, <3>2 DEF PushProduct, Go
    <3>3. CASE ProcessWait(w)
      <4>1. CASE Leave(w) \/ Decide(w)
        BY <2>1, <4>1 DEF Leave, Decide
      <4> QED
        BY <2>3, <3>3, <4>1 DEF ProcessWait
    <3> QED
      BY <2>10, <3>1, <3>2, <3>3 DEF ProcessStep
  <2>11. ASSUME NEW c \in CallbackWorkers, CallbackStep(c) PROVE JobInv'
    <3>1. CASE LoopHead(c) \/ Sleep(c) \/ Call(c)
      BY <2>1, <3>1 DEF LoopHead, Sleep, Call
    <3>2. CASE CallbackFail(c)
      BY <2>0, <2>4, <3>2 DEF CallbackFail, PutBack, Go
    <3>3. CASE CallbackWait(c)
      <4>1. CASE Leave(c) \/ Decide(c)
        BY <2>1, <4>1 DEF Leave, Decide
      <4> QED
        BY <2>5, <3>3, <4>1 DEF CallbackWait
    <3> QED
      BY <2>6, <2>11, <3>1, <3>2, <3>3 DEF CallbackStep
  <2>12. CASE \/ \E w \in Workers : SpuriousWakeup(w)
              \/ \E b \in {"set", "reset"} : SetCallback(b)
              \/ SetCallbackStore \/ Destroyed \/ UNCHANGED vars
              \/ \E kind \in Kinds, n \in Counts : SetWorkerCount(kind, n)
              \/ HireFire \/ DestroyEnd
    <3>1. UNCHANGED <<queues, hand, history>>
      BY <2>12 DEF SpuriousWakeup, SetCallback, SetCallbackStore, Destroyed, vars,
                   SetWorkerCount, HireFire, Hire, Enlist, HireDone, FireNext, FireQuit,
                   FireNotify, FireJoin, DestroyEnd
    <3> QED
      BY <2>1, <3>1
  <2> QED
    BY <2>2, <2>7, <2>8, <2>9, <2>10, <2>11, <2>12 DEF Next, Destroy
<1> QED
  BY <1>1, <1>2, HandsCorrect, PTL DEF Spec

(* No job is lost or doubled between addJob and the callback, getProduct   *)
(* or the destructor, whatever workers are hired and fired and whenever    *)
(* the callback is set and reset.                                          *)
THEOREM NoJobLostOrDoubled == Spec => []JobsConserved
<1>1. JobInv => JobsConserved
  BY DEF JobInv, Accounted, Counted, Pending, Output, Busy, JobsConserved
<1> QED
  BY <1>1, JobsCorrect, PTL
-----------------------------------------------------------------------------
(* The pipeline implements the abstract factory.                           *)

InputClosed == phase # "alive" => queueProcess = <<>>

(* InputClosed is inductive: addJob is over when the destructor begins.    *)
LEMMA InputClosedCorrect == Spec => []InputClosed
<1>1. Init => InputClosed
  BY DEF Init, InputClosed
<1>2. InputClosed /\ [Next]_vars => InputClosed'
  <2> SUFFICES ASSUME InputClosed, [Next]_vars PROVE InputClosed'
    OBVIOUS
  <2> USE DEF mgrVars, queues, workerVars, cbVars, history
  <2>1. ASSUME UNCHANGED <<queueProcess, phase>> PROVE InputClosed'
    BY <2>1 DEF InputClosed
  <2>2. ASSUME NEW w \in ProcessWorkers, ProcessStep(w) PROVE InputClosed'
    <3>1. CASE ProcessWait(w)
      <4>1. UNCHANGED phase /\ (queueProcess' = queueProcess \/ queueProcess # <<>>)
        BY <3>1 DEF ProcessWait, TakeJob, Decide, Leave
      <4> QED
        BY <4>1 DEF InputClosed
    <3>2. CASE LoopHead(w) \/ Sleep(w) \/ PushProduct(w) \/ LookForCallback(w) \/ NotifyFinish(w)
      BY <2>1, <3>2 DEF LoopHead, Sleep, PushProduct, LookForCallback, NotifyFinish
    <3> QED
      BY <2>2, <3>1, <3>2 DEF ProcessStep
  <2>3. ASSUME NEW c \in CallbackWorkers, CallbackStep(c) PROVE InputClosed'
    BY <2>1, <2>3 DEF CallbackStep, LoopHead, CallbackWait, Leave, TakeProduct, Decide, Sleep, Call,
       Returned, CallbackFail
  <2>4. ASSUME NEW j \in Jobs, AddJob(j) PROVE InputClosed'
    BY <2>4 DEF AddJob, InputClosed
  <2>5. CASE \/ \E w \in Workers : SpuriousWakeup(w)
             \/ GetProduct \/ SetCallbackStore \/ Destroyed \/ UNCHANGED vars
             \/ \E b \in {"set", "reset"} : SetCallback(b)
             \/ \E kind \in Kinds, n \in Counts : SetWorkerCount(kind, n)
    BY <2>1, <2>5 DEF SpuriousWakeup, GetProduct, SetCallbackStore, Destroyed, vars, SetCallback,
       SetWorkerCount
  <2>6. CASE HireFire
    BY <2>1, <2>6 DEF HireFire, Hire, Enlist, HireDone, FireNext, FireQuit, FireNotify, FireJoin
  <2>7. CASE DestroyInput
    BY <2>7 DEF DestroyInput, InputClosed
  <2>8. CASE Destroy
    BY <2>8 DEF Destroy, DestroyOutput, DestroyEnd, InputClosed
  <2> QED
    BY <2>2, <2>3, <2>4, <2>5, <2>6, <2>7, <2>8 DEF Next
<1> QED
  BY <1>1, <1>2, PTL DEF Spec

(* When the destructor clears the output no process worker is left, and    *)
(* when it ends no callback worker is.                                     *)
LEMMA NobodyLeft ==
  ASSUME StaffInv, PhaseInv, HandInv
  PROVE  /\ phase \in {"output", "destroyed"} \/ (phase = "process" /\ mgr.at = "idle")
              => InHands(ProcessWorkers) = {}
         /\ phase = "destroyed" \/ (phase = "output" /\ mgr.at = "idle")
              => InHands(CallbackWorkers) = {}
<1>1. ASSUME NEW k \in Kinds, staff[k] = <<>>, mgr.at # "enlist" PROVE InHands(Pool(k)) = {}
  <2>1. ASSUME NEW w \in Pool(k) PROVE hand[w] = NoJob
    <3>1. w \in Workers
      BY DEF Workers, Pool
    <3>2. place[w] = "none"
      <4>1. ASSUME place[w] # "none" PROVE FALSE
        <5>1. Unlisted(k, w)
          BY <1>1, <4>1 DEF Unlisted, SeqRange
        <5> QED
          BY <1>1, <3>1, <5>1 DEF StaffInv, OneUnlisted
      <4> QED
        BY <4>1
    <3> QED
      BY <3>1, <3>2 DEF HandInv, Holding
  <2> QED
    BY <2>1 DEF InHands
<1>2. Pool("process") = ProcessWorkers /\ Pool("callback") = CallbackWorkers
  BY DEF Pool
<1>3. InHands(ProcessWorkers) = {} \/ staff["process"] # <<>> \/ mgr.at = "enlist"
  BY <1>1, <1>2 DEF Kinds
<1>4. InHands(CallbackWorkers) = {} \/ staff["callback"] # <<>> \/ mgr.at = "enlist"
  BY <1>1, <1>2 DEF Kinds
<1> QED
  BY <1>3, <1>4 DEF PhaseInv

(* A worker of S takes a job: those of T hold what they held.              *)
LEMMA TakingOf ==
  ASSUME HandInv, NEW S, NEW T, S \subseteq Workers, T \subseteq Workers, S \cap T = {},
         NEW w \in S, hand[w] = NoJob, NEW x \in Jobs, hand' = [hand EXCEPT ![w] = x]
  PROVE  InHands(S)' = InHands(S) \cup {x} /\ InHands(T)' = InHands(T)
<1>1. /\ x # NoJob /\ hand'[w] = x
      /\ \A v \in Workers : v # w => hand'[v] = hand[v]
  BY PipelineAssumption DEF HandInv
<1> QED
  BY <1>1 DEF InHands

(* A worker of S passes on what no other worker holds.                     *)
LEMMA GivingOf ==
  ASSUME HandInv, Apart, NEW S, NEW T, S \subseteq Workers, T \subseteq Workers, S \cap T = {},
         NEW w \in S, hand[w] # NoJob, hand' = [hand EXCEPT ![w] = NoJob]
  PROVE  /\ InHands(S)' = InHands(S) \ {hand[w]} /\ InHands(T)' = InHands(T)
         /\ hand[w] \in InHands(S) /\ hand[w] \in Jobs
<1>1. /\ hand'[w] = NoJob /\ hand[w] \in Jobs
      /\ \A v \in Workers : v # w => hand'[v] = hand[v]
  BY DEF HandInv
<1>2. \A v \in Workers : v # w => hand[v] # hand[w]
  BY DEF Apart, Busy
<1> QED
  BY <1>1, <1>2 DEF InHands

(* What the mapping makes of a step that only one of its parts sees.       *)
LEMMA SameHands ==
  ASSUME UNCHANGED <<queues, hand, history, phase>>
  PROVE  UNCHANGED Abstract!vars
BY DEF Abstract!vars, InHands, Closing, queues, history

(* The pipeline implements the abstract factory, provided that the worker  *)
(* counts that were asked for are not 0: FactorySpec.                      *)
THEOREM ImplementsFactory == ASSUME SomebodyKept PROVE Spec => FactorySpec
<1> USE PipelineAssumption
<1>1. Init => Abstract!Init
  <2> SUFFICES ASSUME Init PROVE Abstract!Init
    OBVIOUS
  <2>1. /\ queueProcess = <<>> /\ queueOutput = <<>> /\ phase = "alive"
        /\ \A w \in Workers : hand[w] = NoJob
        /\ delivered = {} /\ discarded = {}
    BY DEF Init
  <2>2. InHands(ProcessWorkers) = {} /\ InHands(CallbackWorkers) = {}
    BY <2>1 DEF InHands, Workers
  <2>3. Closing = "open"
    BY <2>1 DEF Closing
  <2> QED
    BY <2>1, <2>2, <2>3 DEF Abstract!Init
<1>2. /\ StaffInv /\ PhaseInv /\ HandInv /\ HandInv' /\ JobInv /\ InputClosed
      /\ [Next]_vars
      => [Abstract!Next]_Abstract!vars
  <2> SUFFICES ASSUME StaffInv, PhaseInv, HandInv, HandInv', JobInv, InputClosed, [Next]_vars
               PROVE  Abstract!Next \/ UNCHANGED Abstract!vars
    OBVIOUS
  <2> USE DEF workerVars, queues, cbVars, mgrVars, history
  <2>0. /\ Apart /\ Accounted
        /\ ProcessWorkers \subseteq Workers /\ CallbackWorkers \subseteq Workers
        /\ ProcessWorkers \cap CallbackWorkers = {} /\ CallbackWorkers \cap ProcessWorkers = {}
        /\ queueProcess \in Seq(Jobs) /\ queueOutput \in Seq(Jobs)
    BY DEF JobInv, Workers, HandInv
  <2>1. ASSUME NEW w \in ProcessWorkers, place[w] = "lock", queueProcess # <<>>, TakeJob(w)
        PROVE  Abstract!Begin
    <3>1. /\ hand' = [hand EXCEPT ![w] = Head(queueProcess)]
          /\ queueProcess' = Tail(queueProcess)
          /\ UNCHANGED <<queueOutput, delivered, discarded, phase>>
      BY <2>1 DEF TakeJob
    <3>2. hand[w] = NoJob
      BY <2>0, <2>1 DEF HandInv, Holding
    <3>3. Head(queueProcess) \in Jobs
      BY <2>0, <2>1
    <3>4. /\ InHands(ProcessWorkers)' = InHands(ProcessWorkers) \cup {Head(queueProcess)}
          /\ InHands(CallbackWorkers)' = InHands(CallbackWorkers)
      BY <2>0, <3>1, <3>2, <3>3, TakingOf
    <3>5. Closing' = Closing
      BY <3>1 DEF Closing
    <3> QED
      BY <2>1, <3>1, <3>4, <3>5 DEF Abstract!Begin
  <2>2. ASSUME NEW w \in ProcessWorkers, PushProduct(w)
        PROVE  \E j \in Jobs : Abstract!Make(j)
    <3>1. /\ hand' = [hand EXCEPT ![w] = NoJob]
          /\ queueOutput' = Append(queueOutput, hand[w])
          /\ UNCHANGED <<queueProcess, delivered, discarded, phase>>
      BY <2>2 DEF PushProduct
    <3>2. hand[w] # NoJob
      BY <2>0, <2>2 DEF PushProduct, Go, HandInv, Holding
    <3>3. /\ InHands(ProcessWorkers)' = InHands(ProcessWorkers) \ {hand[w]}
          /\ InHands(CallbackWorkers)' = InHands(CallbackWorkers)
          /\ hand[w] \in InHands(ProcessWorkers) /\ hand[w] \in Jobs
      BY <2>0, <3>1, <3>2, GivingOf
    <3>4. Closing' = Closing
      BY <3>1 DEF Closing
    <3>5. Abstract!Make(hand[w])
      BY <3>1, <3>3, <3>4 DEF Abstract!Make
    <3> QED
      BY <3>3, <3>5
  <2>3. ASSUME NEW c \in CallbackWorkers, place[c] = "lock", queueOutput # <<>>, TakeProduct(c)
        PROVE  Abstract!Offer
    <3>1. /\ hand' = [hand EXCEPT ![c] = Head(queueOutput)]
          /\ queueOutput' = Tail(queueOutput)
          /\ UNCHANGED <<queueProcess, delivered, discarded, phase>>
      BY <2>3 DEF TakeProduct
    <3>2. hand[c] = NoJob
      BY <2>0, <2>3 DEF HandInv, Holding
    <3>3. Head(queueOutput) \in Jobs
      BY <2>0, <2>3
    <3>4. /\ InHands(CallbackWorkers)' = InHands(CallbackWorkers) \cup {Head(queueOutput)}
          /\ InHands(ProcessWorkers)' = InHands(ProcessWorkers)
      BY <2>0, <3>1, <3>2, <3>3, TakingOf
    <3>5. phase # "destroyed"
      <4>1. ASSUME phase = "destroyed" PROVE FALSE
        <5>1. staff["callback"] = <<>> /\ mgr.at = "idle"
          BY <4>1 DEF PhaseInv
        <5>2. Unlisted("callback", c)
          BY <2>3, <5>1 DEF Unlisted, SeqRange, Pool
        <5> QED
          BY <2>0, <5>1, <5>2 DEF StaffInv, OneUnlisted, Kinds
      <4> QED
        BY <4>1
    <3>6. Closing # "closed" /\ Closing' = Closing
      BY <3>1, <3>5 DEF Closing, HandInv
    <3> QED
      BY <2>3, <3>1, <3>4, <3>6 DEF Abstract!Offer
  <2>4. ASSUME NEW c \in CallbackWorkers, Returned(c)
        PROVE  \E j \in Jobs : Abstract!Give(j)
    <3>1. /\ hand' = [hand EXCEPT ![c] = NoJob]
          /\ delivered' = delivered \cup {hand[c]}
          /\ UNCHANGED <<queueProcess, queueOutput, discarded, phase>>
      BY <2>4 DEF Returned
    <3>2. hand[c] # NoJob
      BY <2>0, <2>4 DEF Returned, Go, HandInv, Holding
    <3>3. /\ InHands(CallbackWorkers)' = InHands(CallbackWorkers) \ {hand[c]}
          /\ InHands(ProcessWorkers)' = InHands(ProcessWorkers)
          /\ hand[c] \in InHands(CallbackWorkers) /\ hand[c] \in Jobs
      BY <2>0, <3>1, <3>2, GivingOf
    <3>4. Closing' = Closing
      BY <3>1 DEF Closing
    <3>5. Abstract!Give(hand[c])
      BY <3>1, <3>3, <3>4 DEF Abstract!Give
    <3> QED
      BY <3>3, <3>5
  <2>5. ASSUME NEW c \in CallbackWorkers, CallbackFail(c)
        PROVE  \E j \in Jobs : Abstract!TakeBack(j)
    <3>1. /\ hand' = [hand EXCEPT ![c] = NoJob]
          /\ queueOutput' = Append(queueOutput, hand[c])
          /\ UNCHANGED <<queueProcess, delivered, discarded, phase>>
      BY <2>5 DEF CallbackFail, PutBack
    <3>2. hand[c] # NoJob
      BY <2>0, <2>5 DEF CallbackFail, Go, HandInv, Holding
    <3>3. /\ InHands(CallbackWorkers)' = InHands(CallbackWorkers) \ {hand[c]}
          /\ InHands(ProcessWorkers)' = InHands(ProcessWorkers)
          /\ hand[c] \in InHands(CallbackWorkers) /\ hand[c] \in Jobs
      BY <2>0, <3>1, <3>2, GivingOf
    <3>4. Closing' = Closing
      BY <3>1 DEF Closing
    <3>5. Abstract!TakeBack(hand[c])
      BY <3>1, <3>3, <3>4 DEF Abstract!TakeBack
    <3> QED
      BY <3>3, <3>5
  <2>6. ASSUME NEW j \in Jobs, AddJob(j)
        PROVE  Abstract!Add(j)
    <3>1. /\ phase = "alive" /\ j \notin added
          /\ queueProcess' = Append(queueProcess, j)
          /\ UNCHANGED <<queueOutput, hand, delivered, discarded, phase>>
      BY <2>6 DEF AddJob
    <3>2. UNCHANGED <<InHands(ProcessWorkers), InHands(CallbackWorkers)>>
      BY <3>1 DEF InHands
    <3>3. Closing = "open" /\ Closing' = Closing
      BY <3>1 DEF Closing
    <3>4. j \notin Abstract!Known
      <4>1. InHands(ProcessWorkers) \cup InHands(CallbackWorkers) \subseteq Hands
        BY <2>0 DEF InHands, Hands
      <4> QED
        BY <2>0, <3>1, <4>1 DEF Abstract!Known, Abstract!SeqRange, Accounted, Pending, Output,
           SeqRange
    <3> QED
      BY <3>1, <3>2, <3>3, <3>4 DEF Abstract!Add
  <2>7. CASE GetProduct
    <3>1. /\ phase = "alive" /\ queueOutput # <<>>
          /\ queueOutput' = Tail(queueOutput)
          /\ delivered' = delivered \cup {Head(queueOutput)}
          /\ UNCHANGED <<queueProcess, hand, discarded, phase>>
      BY <2>7 DEF GetProduct
    <3>2. UNCHANGED <<InHands(ProcessWorkers), InHands(CallbackWorkers)>>
      BY <3>1 DEF InHands
    <3>3. Closing = "open" /\ Closing' = Closing
      BY <3>1 DEF Closing
    <3>4. Abstract!Fetch
      BY <3>1, <3>2, <3>3 DEF Abstract!Fetch
    <3> QED
      BY <3>4 DEF Abstract!Next
  <2>8. CASE DestroyInput
    <3>1. /\ phase = "alive" /\ phase' = "process"
          /\ queueProcess' = <<>>
          /\ discarded' = discarded \cup SeqRange(queueProcess)
          /\ UNCHANGED <<queueOutput, hand, delivered>>
      BY <2>8 DEF DestroyInput
    <3>2. UNCHANGED <<InHands(ProcessWorkers), InHands(CallbackWorkers)>>
      BY <3>1 DEF InHands
    <3>3. Closing = "open" /\ Closing' = "closing"
      BY <3>1 DEF Closing
    <3>4. Abstract!Close
      BY <3>1, <3>2, <3>3 DEF Abstract!Close, Abstract!SeqRange, SeqRange
    <3> QED
      BY <3>4 DEF Abstract!Next
  <2>9. CASE DestroyOutput
    <3>1. /\ phase = "process" /\ mgr.at = "idle" /\ phase' = "output"
          /\ queueOutput' = <<>>
          /\ discarded' = discarded \cup SeqRange(queueOutput)
          /\ UNCHANGED <<queueProcess, hand, delivered>>
      BY <2>9 DEF DestroyOutput
    <3>2. UNCHANGED <<InHands(ProcessWorkers), InHands(CallbackWorkers)>>
      BY <3>1 DEF InHands
    <3>3. Closing = "closing" /\ Closing' = "clearing"
      BY <3>1 DEF Closing
    <3>4. queueProcess = <<>>
      BY <3>1 DEF InputClosed
    <3>5. InHands(ProcessWorkers) = {}
      BY <3>1, NobodyLeft
    <3>6. Abstract!Clear
      BY <3>1, <3>2, <3>3, <3>4, <3>5 DEF Abstract!Clear, Abstract!SeqRange, SeqRange
    <3> QED
      BY <3>6 DEF Abstract!Next
  <2>10. CASE DestroyEnd
    <3>1. /\ phase = "output" /\ mgr.at = "idle" /\ phase' = "destroyed"
          /\ UNCHANGED <<queues, hand, history>>
      BY <2>10 DEF DestroyEnd
    <3>2. UNCHANGED <<InHands(ProcessWorkers), InHands(CallbackWorkers)>>
      BY <3>1 DEF InHands
    <3>3. Closing = "clearing" /\ Closing' = "closed"
      BY <3>1 DEF Closing
    <3>4. InHands(CallbackWorkers) = {}
      BY <3>1, NobodyLeft
    <3>5. Abstract!Closed
      BY <3>1, <3>2, <3>3, <3>4 DEF Abstract!Closed
    <3> QED
      BY <3>5 DEF Abstract!Next
  <2>11. ASSUME NEW w \in ProcessWorkers, ProcessStep(w)
         PROVE  Abstract!Next \/ UNCHANGED Abstract!vars
    <3>1. CASE LoopHead(w) \/ Sleep(w) \/ LookForCallback(w) \/ NotifyFinish(w)
      BY <3>1, SameHands DEF LoopHead, Sleep, LookForCallback, NotifyFinish
    <3>2. CASE ProcessWait(w)
      <4>1. \/ place[w] = "lock" /\ queueProcess # <<>> /\ TakeJob(w)
            \/ Leave(w) \/ Decide(w)
        BY <3>2 DEF ProcessWait
      <4>2. CASE Leave(w) \/ Decide(w)
        BY <4>2, SameHands DEF Leave, Decide
      <4> QED
        BY <2>1, <4>1, <4>2 DEF Abstract!Next
    <3>3. CASE PushProduct(w)
      BY <2>2, <3>3 DEF Abstract!Next
    <3> QED
      BY <2>11, <3>1, <3>2, <3>3 DEF ProcessStep
  <2>12. ASSUME NEW c \in CallbackWorkers, CallbackStep(c)
         PROVE  Abstract!Next \/ UNCHANGED Abstract!vars
    <3>1. CASE LoopHead(c) \/ Sleep(c) \/ Call(c)
      BY <3>1, SameHands DEF LoopHead, Sleep, Call
    <3>2. CASE CallbackWait(c)
      <4>1. \/ place[c] = "lock" /\ queueOutput # <<>> /\ TakeProduct(c)
            \/ Leave(c) \/ Decide(c)
        BY <3>2 DEF CallbackWait
      <4>2. CASE Leave(c) \/ Decide(c)
        BY <4>2, SameHands DEF Leave, Decide
      <4> QED
        BY <2>3, <4>1, <4>2 DEF Abstract!Next
    <3>3. CASE Returned(c)
      BY <2>4, <3>3 DEF Abstract!Next
    <3>4. CASE CallbackFail(c)
      BY <2>5, <3>4 DEF Abstract!Next
    <3> QED
      BY <2>12, <3>1, <3>2, <3>3, <3>4 DEF CallbackStep
  <2>13. ASSUME NEW j \in Jobs, AddJob(j) PROVE Abstract!Next
    BY <2>6, <2>13 DEF Abstract!Next
  <2>14. CASE \/ \E w \in Workers : SpuriousWakeup(w)
              \/ SetCallbackStore \/ Destroyed \/ UNCHANGED vars
              \/ \E b \in {"set", "reset"} : SetCallback(b)
              \/ \E kind \in Kinds, n \in Counts : SetWorkerCount(kind, n)
    BY <2>14, SameHands DEF SpuriousWakeup, SetCallbackStore, Destroyed, vars, SetCallback,
       SetWorkerCount
  <2>15. CASE HireFire
    BY <2>15, SameHands DEF HireFire, Hire, Enlist, HireDone, FireNext, FireQuit, FireNotify, FireJoin
  <2> QED
    BY <2>7, <2>8, <2>9, <2>10, <2>11, <2>12, <2>13, <2>14, <2>15 DEF Next, Destroy
<1> QED
  BY <1>1, <1>2, StaffCorrect, PhaseCorrect, HandsCorrect, JobsCorrect, InputClosedCorrect, PTL
  DEF Spec, FactorySpec, Abstract!Spec
=============================================================================
