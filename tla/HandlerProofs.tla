---------------------------- MODULE HandlerProofs ----------------------------
(***************************************************************************)
(* Theorems about Handler, for every set of overlapping calls, every list   *)
(* of providers, and every value of the environment and of the arguments.   *)
(***************************************************************************)
EXTENDS Handler, TLAPS

(* The constructors' defaults are positive, and so is what they leave.      *)
LEMMA EffectivePositive == \A t \in Int : Effective(t) \in Int /\ Effective(t) > 0
BY DEF Effective

LEMMA NewDispatcherUsable ==
  ASSUME NEW ps \in Available, NEW t \in Int, t > 0, NEW n \in Int
  PROVE  /\ NewDispatcher(ps, t, n) \in Dispatchers
         /\ Usable(NewDispatcher(ps, t, n))
         /\ NewDispatcher(ps, t, n).providers = ps
         /\ NewDispatcher(ps, t, n).threshold = t
         /\ NewDispatcher(ps, t, n).capacity = Capacity(n)
BY DEF NewDispatcher, Dispatchers, Usable, Capacity

LEMMA ReportType == ASSUME TypeOK PROVE Report \in Reports
BY DEF TypeOK, Report, Reports

-------------------------------------------------------------------------------
(* Types. *)

(* What a step of config does to the variables of Configs.                  *)
LEMMA MoveType ==
  ASSUME TypeOK, NEW k \in Configs, NEW to \in LockedPoints \cup {"idle"},
         pc' = [pc EXCEPT ![k] = to]
  PROVE  pc' \in [Configs -> LockedPoints \cup {"idle"}]
BY DEF TypeOK

LEMMA GivenType ==
  ASSUME TypeOK, NEW k \in Configs, NEW g \in Arguments, given' = [given EXCEPT ![k] = g]
  PROVE  given' \in [Configs -> Arguments]
BY DEF TypeOK

LEMMA GiveType ==
  ASSUME NEW g \in Arguments
  PROVE  /\ \A ps \in Available : [g EXCEPT !.providers = {ps}] \in Arguments
         /\ \A n \in Int : [g EXCEPT !.concurrency = {n}] \in Arguments
         /\ \A t \in Int : [g EXCEPT !.threshold = {t}] \in Arguments
         /\ [g EXCEPT !.voyage = TRUE] \in Arguments
BY DEF Arguments

LEMMA CfgType ==
  ASSUME NEW r \in [concurrency : Int, threshold : Int], NEW n \in Int
  PROVE  /\ [r EXCEPT !.concurrency = n] \in [concurrency : Int, threshold : Int]
         /\ [r EXCEPT !.threshold = n] \in [concurrency : Int, threshold : Int]
OBVIOUS

LEMMA ConfigTypes ==
  ASSUME TypeOK, engine > 0, NEW k \in Configs, Lock(k) \/ ConfigStep(k)
  PROVE  TypeOK'
<1>1. CASE Lock(k)
  <2>1. pc' \in [Configs -> LockedPoints \cup {"idle"}]
    BY <1>1, MoveType DEF Lock, Move, LockedPoints
  <2> QED BY <1>1, <2>1 DEF Lock, TypeOK, shared
<1>2. CASE RejectProviders(k)
  <2>1. pc' \in [Configs -> LockedPoints \cup {"idle"}]
    BY <1>2, MoveType DEF RejectProviders, Move, LockedPoints
  <2> QED BY <1>2, <2>1 DEF RejectProviders, TypeOK, shared
<1>3. CASE SetProviders(k)
  <2>1. pc' \in [Configs -> LockedPoints \cup {"idle"}]
    BY <1>3, MoveType DEF SetProviders, Move, LockedPoints
  <2>2. PICK ps \in Available : provs' = ps /\ given' = [given EXCEPT ![k].providers = {ps}]
    BY <1>3 DEF SetProviders
  <2>3. given[k] \in Arguments
    BY DEF TypeOK
  <2>4. given' \in [Configs -> Arguments]
    BY <2>2, <2>3, GiveType, GivenType
  <2> QED BY <1>3, <2>1, <2>2, <2>4 DEF SetProviders, TypeOK, lock
<1>4. CASE SetDispatcher(k)
  <2>1. pc' \in [Configs -> LockedPoints \cup {"idle"}]
    BY <1>4, MoveType DEF SetDispatcher, Move, LockedPoints
  <2>2. disp' \in Dispatchers
    BY <1>4, NewDispatcherUsable DEF SetDispatcher, TypeOK
  <2> QED BY <1>4, <2>1, <2>2 DEF SetDispatcher, TypeOK, lock
<1>5. CASE SetVoyage(k)
  <2>1. pc' \in [Configs -> LockedPoints \cup {"idle"}]
    BY <1>5, MoveType DEF SetVoyage, LockedPoints
  <2>2. given' \in [Configs -> Arguments]
    <3>1. given[k] \in Arguments /\ given' = [given EXCEPT ![k].voyage = TRUE]
      BY <1>5 DEF TypeOK, SetVoyage
    <3> QED BY <3>1, GiveType, GivenType
  <2> QED BY <1>5, <2>1, <2>2 DEF SetVoyage, TypeOK, lock
<1>6. CASE SetConcurrency(k)
  <2>1. pc' \in [Configs -> LockedPoints \cup {"idle"}]
    BY <1>6, MoveType DEF SetConcurrency, LockedPoints
  <2>2. PICK conc \in ConcArgs :
          /\ cfg' = [cfg EXCEPT !.concurrency = conc \div 10]
          /\ given' = [given EXCEPT ![k].concurrency = {conc \div 10}]
    BY <1>6 DEF SetConcurrency
  <2>3. conc \div 10 \in Int
    BY HandlerAssumption
  <2>4. cfg' \in [concurrency : Int, threshold : Int]
    BY <2>2, <2>3, CfgType DEF TypeOK
  <2>5. given' \in [Configs -> Arguments]
    <3>1. given[k] \in Arguments
      BY DEF TypeOK
    <3> QED BY <3>1, <2>2, <2>3, GiveType, GivenType
  <2> QED BY <1>6, <2>1, <2>4, <2>5 DEF SetConcurrency, TypeOK, lock
<1>7. CASE SetThreshold(k)
  <2>1. pc' \in [Configs -> LockedPoints \cup {"idle"}]
    BY <1>7, MoveType DEF SetThreshold, LockedPoints
  <2>2. PICK thresh \in ThreshArgs :
          /\ cfg' = [cfg EXCEPT !.threshold = thresh]
          /\ given' = [given EXCEPT ![k].threshold = {thresh}]
    BY <1>7 DEF SetThreshold
  <2>3. thresh \in Int /\ given[k] \in Arguments
    <3>1. thresh \in Int
      BY HandlerAssumption
    <3>2. given[k] \in Arguments
      BY DEF TypeOK
    <3> QED BY <3>1, <3>2
  <2>4. cfg' \in [concurrency : Int, threshold : Int]
    BY <2>2, <2>3, CfgType DEF TypeOK
  <2>5. given' \in [Configs -> Arguments]
    BY <2>2, <2>3, GiveType, GivenType
  <2> QED BY <1>7, <2>1, <2>4, <2>5 DEF SetThreshold, TypeOK, lock
<1>8. CASE SetEngine(k)
  <2>1. pc' \in [Configs -> LockedPoints \cup {"idle"}]
    BY <1>8, MoveType DEF SetEngine, Move, LockedPoints
  <2>2. engine' \in Int
    BY <1>8, EffectivePositive DEF SetEngine, TypeOK
  <2> QED BY <1>8, <2>1, <2>2 DEF SetEngine, TypeOK, lock
<1>9. CASE Answer(k)
  <2>1. pc' \in [Configs -> LockedPoints \cup {"idle"}]
    BY <1>9, MoveType DEF Answer, LockedPoints
  <2>2. reply' \in [Configs -> SUBSET Reports]
    BY <1>9, ReportType DEF Answer, TypeOK
  <2> QED BY <1>9, <2>1, <2>2 DEF Answer, TypeOK, shared, lock
<1>10. CASE Unlock(k)
  <2>1. pc' \in [Configs -> LockedPoints \cup {"idle"}]
    BY <1>10, MoveType DEF Unlock, Move, LockedPoints
  <2>2. given' \in [Configs -> Arguments]
    <3>1. Nothing \in Arguments
      BY DEF Nothing, Arguments
    <3> QED BY <1>10, <3>1, GivenType DEF Unlock
  <2>3. reply' \in [Configs -> SUBSET Reports]
    BY <1>10 DEF Unlock, TypeOK
  <2> QED BY <1>10, <2>1, <2>2, <2>3 DEF Unlock, TypeOK, shared
<1> QED BY <1>1, <1>2, <1>3, <1>4, <1>5, <1>6, <1>7, <1>8, <1>9, <1>10 DEF ConfigStep

LEMMA ToolTypes ==
  ASSUME TypeOK, NEW c \in Callers, Call(c) \/ Locking(c) \/ ToolStep(c)
  PROVE  TypeOK'
<1>1. CASE Call(c) \/ GetTable(c) \/ SetTable(c)
  BY <1>1 DEF Call, GetTable, SetTable, TypeOK, shared, lock, Go
<1>2. CASE Summarize(c) \/ EndSummary(c)
  BY <1>2 DEF Summarize, EndSummary, TypeOK, shared, lock, Go
<1>3. ASSUME NEW D \in SUBSET Dispatchers, using' = [using EXCEPT ![c] = D],
             UNCHANGED <<shared, lock, pc, given, reply>>,
             NEW to \in {"idle", "searching", "validating", "launching"},
             at' = [at EXCEPT ![c] = to]
      PROVE  TypeOK'
  BY <1>3 DEF TypeOK, shared, lock
<1>4. CASE SearchRow(c) \/ ValidateByDispatcher(c) \/ SearchBatch(c)
  <2>1. {disp} \in SUBSET Dispatchers
    BY DEF TypeOK
  <2> QED BY <1>3, <1>4, <2>1 DEF SearchRow, ValidateByDispatcher, SearchBatch, Go
<1>5. CASE ValidateByEngine(c)
  <2>1. {[disp EXCEPT !.threshold = engine]} \in SUBSET Dispatchers
    BY DEF TypeOK, Dispatchers
  <2> QED BY <1>3, <1>5, <2>1 DEF ValidateByEngine, Go
<1>6. CASE LaunchRows(c) \/ Return(c)
  <2>1. {} \in SUBSET Dispatchers
    OBVIOUS
  <2> QED BY <1>3, <1>6, <2>1 DEF LaunchRows, Return, Go
<1> QED BY <1>1, <1>2, <1>4, <1>5, <1>6 DEF ToolStep, Locking

-------------------------------------------------------------------------------
(* The lock. *)

LEMMA LockStep == TypeOK /\ ConfigIsAlone /\ [Next]_vars => ConfigIsAlone'
<1> SUFFICES ASSUME TypeOK, ConfigIsAlone, [Next]_vars PROVE ConfigIsAlone'
  OBVIOUS
<1>1. ASSUME NEW k \in Configs, Lock(k) PROVE ConfigIsAlone'
  BY <1>1, HandlerAssumption DEF Lock, Move, TypeOK, ConfigIsAlone
<1>2. ASSUME NEW k \in Configs, RejectProviders(k) \/ Unlock(k) PROVE ConfigIsAlone'
  <2>1. /\ writer' = NoOne /\ readers' = readers /\ at' = at
        /\ pc[k] # "idle" /\ pc' = [pc EXCEPT ![k] = "idle"]
    BY <1>2 DEF RejectProviders, Unlock, Move
  <2>2. writer = k
    BY <2>1 DEF ConfigIsAlone
  <2> QED BY <2>1, <2>2, HandlerAssumption DEF TypeOK, ConfigIsAlone
<1>3. ASSUME NEW k \in Configs, ConfigStep(k), ~RejectProviders(k), ~Unlock(k)
      PROVE  ConfigIsAlone'
  <2>1. /\ writer' = writer /\ readers' = readers /\ at' = at
        /\ pc[k] # "idle" /\ pc'[k] # "idle" /\ \A j \in Configs : j # k => pc'[j] = pc[j]
    BY <1>3 DEF ConfigStep, SetProviders, SetDispatcher, SetVoyage, SetConcurrency,
                SetThreshold, SetEngine, Answer, Move, TypeOK, lock
  <2> QED BY <2>1 DEF ConfigIsAlone
<1>4. ASSUME NEW c \in Callers, Summarize(c) PROVE ConfigIsAlone'
  <2>1. /\ readers' = readers \cup {c} /\ writer' = writer /\ pc' = pc /\ writer = NoOne
        /\ at[c] = "summarizing" /\ at' = [at EXCEPT ![c] = "summing up"]
    BY <1>4 DEF Summarize, Go
  <2> QED BY <2>1 DEF TypeOK, ConfigIsAlone
<1>5. ASSUME NEW c \in Callers, EndSummary(c) PROVE ConfigIsAlone'
  <2>1. /\ readers' = readers \ {c} /\ writer' = writer /\ pc' = pc
        /\ at[c] = "summing up" /\ at' = [at EXCEPT ![c] = "idle"]
    BY <1>5 DEF EndSummary, Go
  <2> QED BY <2>1 DEF TypeOK, ConfigIsAlone
<1>6. ASSUME NEW c \in Callers, Call(c) \/ GetTable(c) \/ SetTable(c) \/ ToolStep(c),
             ~EndSummary(c)
      PROVE  ConfigIsAlone'
  <2>1. /\ writer' = writer /\ readers' = readers /\ pc' = pc
        /\ at[c] # "summing up" /\ at'[c] # "summing up"
        /\ \A d \in Callers : d # c => at'[d] = at[d]
    BY <1>6 DEF Call, GetTable, SetTable, ToolStep, SearchRow, ValidateByDispatcher, ValidateByEngine,
                SearchBatch, LaunchRows, Return, Go, TypeOK, lock
  <2> QED BY <2>1 DEF ConfigIsAlone
<1>7. CASE UNCHANGED vars
  BY <1>7 DEF vars, lock, ConfigIsAlone
<1> QED BY <1>1, <1>2, <1>3, <1>4, <1>5, <1>6, <1>7 DEF Next, Locking

-------------------------------------------------------------------------------
(* The configuration. *)

(* The steps that change nothing the configuration's invariants speak of.   *)
LEMMA ToolsKeepConfiguration ==
  ASSUME NEW c \in Callers, Call(c) \/ Locking(c) \/ ToolStep(c)
  PROVE  UNCHANGED <<cfg, provs, engine, disp, voyage, pc, given, reply>>
BY DEF Call, Locking, GetTable, Summarize, SetTable, ToolStep, EndSummary, SearchRow,
       ValidateByDispatcher, ValidateByEngine, SearchBatch, LaunchRows, Return, shared

(* A part of the configuration changes only while the others are locked out *)
(* and is followed by the part built from it before the lock is given back. *)
LEMMA PartsStep == TypeOK /\ ConfigIsAlone /\ PartsAgree /\ engine > 0 /\ [Next]_vars
                     => PartsAgree' /\ engine' > 0
<1> SUFFICES ASSUME TypeOK, ConfigIsAlone, PartsAgree, engine > 0, [Next]_vars
             PROVE  PartsAgree' /\ engine' > 0
  OBVIOUS
<1>1. ASSUME NEW k \in Configs, Lock(k) \/ ConfigStep(k) PROVE PartsAgree' /\ engine' > 0
  <2>1. \A j \in Configs : j # k => pc'[j] = pc[j] /\ pc[j] = "idle"
    <3>1. \A j \in Configs : j # k => pc'[j] = pc[j]
      BY <1>1 DEF Lock, ConfigStep, RejectProviders, SetProviders, SetDispatcher, SetVoyage,
                  SetConcurrency, SetThreshold, SetEngine, Answer, Unlock, Move, TypeOK
    <3>2. writer = NoOne \/ writer = k
      BY <1>1 DEF Lock, ConfigStep, RejectProviders, SetProviders, SetDispatcher, SetVoyage,
                  SetConcurrency, SetThreshold, SetEngine, Answer, Unlock, Move, ConfigIsAlone
    <3> QED BY <3>1, <3>2, HandlerAssumption DEF ConfigIsAlone
  <2>2. CASE SetProviders(k)
    BY <2>1, <2>2 DEF SetProviders, Move, PartsAgree, TypeOK
  <2>3. CASE SetDispatcher(k)
    <3>1. disp'.providers = provs /\ UNCHANGED <<cfg, provs, engine>>
      BY <2>3 DEF SetDispatcher, NewDispatcher
    <3> QED BY <2>1, <2>3, <3>1 DEF SetDispatcher, Move, PartsAgree, TypeOK
  <2>4. CASE SetThreshold(k)
    BY <2>1, <2>4 DEF SetThreshold, PartsAgree, TypeOK
  <2>5. CASE SetEngine(k)
    <3>1. cfg.threshold \in Int
      BY DEF TypeOK
    <3> QED BY <2>1, <2>5, <3>1, EffectivePositive DEF SetEngine, Move, PartsAgree, TypeOK
  <2>6. CASE SetConcurrency(k)
    <3>1. cfg'.threshold = cfg.threshold /\ UNCHANGED <<provs, engine, disp>>
      BY <2>6 DEF SetConcurrency, TypeOK
    <3> QED BY <2>1, <2>6, <3>1 DEF SetConcurrency, PartsAgree, TypeOK
  <2>7. CASE Lock(k) \/ RejectProviders(k) \/ SetVoyage(k) \/ Answer(k) \/ Unlock(k)
    <3>1. /\ UNCHANGED <<cfg, provs, engine, disp>>
          /\ pc[k] \notin {"rebuilding", "thresholded"} /\ pc'[k] \notin {"rebuilding", "thresholded"}
      BY <2>7 DEF Lock, RejectProviders, SetVoyage, Answer, Unlock, Move, shared, TypeOK
    <3> QED BY <2>1, <3>1 DEF PartsAgree
  <2> QED BY <1>1, <2>2, <2>3, <2>4, <2>5, <2>6, <2>7 DEF ConfigStep
<1>2. CASE UNCHANGED <<cfg, provs, engine, disp, voyage, pc, given, reply>>
  BY <1>2 DEF PartsAgree
<1> QED BY <1>1, <1>2, ToolsKeepConfiguration DEF Next, vars, shared

(* Every dispatcher comes from NewDispatcher, and from a positive engine.   *)
LEMMA UsableStep == TypeOK /\ AllUsable /\ engine > 0 /\ [Next]_vars => AllUsable'
<1> SUFFICES ASSUME TypeOK, AllUsable, engine > 0, [Next]_vars PROVE AllUsable'
  OBVIOUS
<1>1. ASSUME NEW k \in Configs, SetDispatcher(k) PROVE AllUsable'
  <2>1. Usable(disp') /\ using' = using
    BY <1>1, NewDispatcherUsable DEF SetDispatcher, TypeOK
  <2> QED BY <2>1 DEF AllUsable
<1>2. ASSUME NEW k \in Configs, Lock(k) \/ ConfigStep(k), ~SetDispatcher(k) PROVE AllUsable'
  <2>1. disp' = disp /\ using' = using
    BY <1>2 DEF Lock, ConfigStep, RejectProviders, SetProviders, SetVoyage, SetConcurrency,
                SetThreshold, SetEngine, Answer, Unlock, shared
  <2> QED BY <2>1 DEF AllUsable
<1>3. ASSUME NEW c \in Callers, Call(c) \/ Locking(c) \/ ToolStep(c) PROVE AllUsable'
  <2>1. disp' = disp
    BY <1>3, ToolsKeepConfiguration
  <2>2. Usable([disp EXCEPT !.threshold = engine])
    BY DEF AllUsable, Usable, TypeOK, Dispatchers
  <2>3. \/ using' = using
        \/ \E D \in {{}, {disp}, {[disp EXCEPT !.threshold = engine]}} :
             using' = [using EXCEPT ![c] = D]
    BY <1>3 DEF Call, Locking, GetTable, Summarize, SetTable, ToolStep, EndSummary, SearchRow,
                ValidateByDispatcher, ValidateByEngine, SearchBatch, LaunchRows, Return
  <2> QED BY ZenonT(60), <2>1, <2>2, <2>3 DEF AllUsable, TypeOK
<1>4. CASE UNCHANGED vars
  BY <1>4 DEF vars, shared, AllUsable
<1> QED BY <1>1, <1>2, <1>3, <1>4 DEF Next

(* Nobody else changes a setting between the step that applies an argument  *)
(* and the answer.                                                          *)
LEMMA TruthfulStep == TypeOK /\ ConfigIsAlone /\ Truthful /\ [Next]_vars => Truthful'
<1> SUFFICES ASSUME TypeOK, ConfigIsAlone, Truthful, [Next]_vars PROVE Truthful'
  OBVIOUS
<1> DEFINE True(j) == /\ pc[j] \in {"idle", "locked"} => given[j] = Nothing
                      /\ Applied(j)
                      /\ reply[j] = IF pc[j] = "answered" THEN {Report} ELSE {}
<1>1. ASSUME NEW k \in Configs, Lock(k) \/ ConfigStep(k) PROVE Truthful'
  <2>1. /\ \A j \in Configs : j # k => /\ pc'[j] = pc[j] /\ pc[j] = "idle"
                                       /\ given'[j] = given[j] /\ reply'[j] = reply[j]
    <3>1. \A j \in Configs : j # k =>
             pc'[j] = pc[j] /\ given'[j] = given[j] /\ reply'[j] = reply[j]
      BY <1>1 DEF Lock, ConfigStep, RejectProviders, SetProviders, SetDispatcher, SetVoyage,
                  SetConcurrency, SetThreshold, SetEngine, Answer, Unlock, Move, TypeOK
    <3>2. writer = NoOne \/ writer = k
      BY <1>1 DEF Lock, ConfigStep, RejectProviders, SetProviders, SetDispatcher, SetVoyage,
                  SetConcurrency, SetThreshold, SetEngine, Answer, Unlock, Move, ConfigIsAlone
    <3>3. \A j \in Configs : j # k => pc[j] = "idle"
      BY <3>2, HandlerAssumption DEF ConfigIsAlone
    <3> QED BY <3>1, <3>3
  <2>2. \A j \in Configs : j # k => True(j)'
    BY <2>1 DEF Truthful, Applied, Nothing
  <2>3. True(k)
    BY DEF Truthful
  <2>4. given[k] \in Arguments /\ cfg \in [concurrency : Int, threshold : Int]
    BY DEF TypeOK
  <2>5. True(k)'
    <3>1. CASE Lock(k)
      BY <2>3, <3>1 DEF Lock, Move, shared, TypeOK, Applied
    <3>2. CASE RejectProviders(k)
      BY <2>3, <3>2 DEF RejectProviders, Move, shared, TypeOK, Applied
    <3>3. CASE SetProviders(k)
      <4>1. PICK ps \in Available : provs' = ps /\ given' = [given EXCEPT ![k].providers = {ps}]
        BY <3>3 DEF SetProviders
      <4>2. given'[k] = [given[k] EXCEPT !.providers = {ps}]
        BY <4>1 DEF TypeOK
      <4>3. /\ given'[k].providers = {ps} /\ given'[k].concurrency = given[k].concurrency
            /\ given'[k].threshold = given[k].threshold /\ given'[k].voyage = given[k].voyage
        BY <2>4, <4>2 DEF Arguments
      <4>4. /\ pc[k] = "locked" /\ pc'[k] = "rebuilding"
            /\ UNCHANGED <<cfg, voyage, reply>>
        BY <3>3 DEF SetProviders, Move, TypeOK
      <4> QED BY <2>3, <4>1, <4>3, <4>4 DEF Applied
    <3>4. CASE SetDispatcher(k)
      BY <2>3, <3>4 DEF SetDispatcher, Move, TypeOK, Applied
    <3>5. CASE SetVoyage(k)
      BY <2>3, <2>4, <3>5 DEF SetVoyage, TypeOK, Applied, Arguments
    <3>6. CASE SetConcurrency(k)
      <4>1. PICK conc \in ConcArgs :
              /\ cfg' = [cfg EXCEPT !.concurrency = conc \div 10]
              /\ given' = [given EXCEPT ![k].concurrency = {conc \div 10}]
        BY <3>6 DEF SetConcurrency
      <4> DEFINE n == conc \div 10
      <4>2. given'[k] = [given[k] EXCEPT !.concurrency = {n}]
        BY <4>1 DEF TypeOK
      <4>3. cfg'.concurrency = n /\ cfg'.threshold = cfg.threshold
        BY <2>4, <4>1
      <4> HIDE DEF n
      <4>4. /\ given'[k].concurrency = {n} /\ given'[k].providers = given[k].providers
            /\ given'[k].threshold = given[k].threshold /\ given'[k].voyage = given[k].voyage
        BY <2>4, <4>2 DEF Arguments
      <4>5. /\ pc[k] # "answered" /\ pc'[k] = "sized"
            /\ UNCHANGED <<provs, voyage, reply>>
        BY <3>6 DEF SetConcurrency, TypeOK
      <4> QED BY <2>3, <4>3, <4>4, <4>5 DEF Applied
    <3>7. CASE SetThreshold(k)
      <4>1. PICK n \in ThreshArgs :
              /\ cfg' = [cfg EXCEPT !.threshold = n]
              /\ given' = [given EXCEPT ![k].threshold = {n}]
        BY <3>7 DEF SetThreshold
      <4>2. given'[k] = [given[k] EXCEPT !.threshold = {n}]
        BY <4>1 DEF TypeOK
      <4>3. cfg'.threshold = n /\ cfg'.concurrency = cfg.concurrency
        BY <2>4, <4>1
      <4>4. /\ given'[k].threshold = {n} /\ given'[k].providers = given[k].providers
            /\ given'[k].concurrency = given[k].concurrency /\ given'[k].voyage = given[k].voyage
        BY <2>4, <4>2 DEF Arguments
      <4>5. /\ pc[k] # "answered" /\ pc'[k] = "thresholded"
            /\ UNCHANGED <<provs, voyage, reply>>
        BY <3>7 DEF SetThreshold, TypeOK
      <4> QED BY <2>3, <4>3, <4>4, <4>5 DEF Applied
    <3>8. CASE SetEngine(k)
      BY <2>3, <3>8 DEF SetEngine, Move, TypeOK, Applied
    <3>9. CASE Answer(k)
      BY <2>3, <3>9 DEF Answer, TypeOK, Applied, shared, Report
    <3>10. CASE Unlock(k)
      BY <2>3, <3>10 DEF Unlock, Move, TypeOK, Applied, Nothing
    <3> QED BY <1>1, <3>1, <3>2, <3>3, <3>4, <3>5, <3>6, <3>7, <3>8, <3>9, <3>10 DEF ConfigStep
  <2> QED BY <2>2, <2>5 DEF Truthful
<1>2. CASE UNCHANGED <<cfg, provs, engine, disp, voyage, pc, given, reply>>
  BY <1>2 DEF Truthful, Applied, Report, Nothing
<1> QED BY <1>1, <1>2, ToolsKeepConfiguration DEF Next, vars, shared

(* A call that gives a provider list carries the settings of before it into *)
(* the dispatcher, and those it gives besides stay out of it.               *)
LEMMA RebuiltStep ==
  ASSUME TypeOK, ConfigIsAlone, Truthful, Rebuilt, engine > 0, [Next]_vars
  PROVE  Rebuilt'
<1>1. ASSUME NEW k \in Configs, Lock(k) \/ ConfigStep(k) PROVE Rebuilt'
  <2> DEFINE Caught(j) ==
               /\ given[j].providers # {} /\ pc[j] # "rebuilding" =>
                    /\ given[j].concurrency = {} => disp.capacity = Capacity(cfg.concurrency)
                    /\ given[j].threshold = {} => disp.threshold = engine
               /\ pc[j] = "thresholded" => given[j].threshold # {}
  <2>1. \A j \in Configs : j # k => Caught(j)'
    <3>1. \A j \in Configs : j # k => pc'[j] = pc[j] /\ given'[j] = given[j]
      BY <1>1 DEF Lock, ConfigStep, RejectProviders, SetProviders, SetDispatcher, SetVoyage,
                  SetConcurrency, SetThreshold, SetEngine, Answer, Unlock, Move, TypeOK
    <3>2. writer = NoOne \/ writer = k
      BY <1>1 DEF Lock, ConfigStep, RejectProviders, SetProviders, SetDispatcher, SetVoyage,
                  SetConcurrency, SetThreshold, SetEngine, Answer, Unlock, Move, ConfigIsAlone
    <3>3. \A j \in Configs : j # k => pc[j] = "idle" /\ given[j] = Nothing
      BY <3>2, HandlerAssumption DEF ConfigIsAlone, Truthful
    <3> QED BY <3>1, <3>3 DEF Nothing
  <2>2. given[k] \in Arguments /\ cfg \in [concurrency : Int, threshold : Int] /\ Caught(k)
    BY DEF TypeOK, Rebuilt
  <2>3. pc[k] \in {"idle", "locked"} => given[k] = Nothing
    BY DEF Truthful
  <2>4. Caught(k)'
    <3>1. CASE Lock(k) \/ RejectProviders(k)
      <4>1. given'[k] = Nothing /\ pc'[k] # "thresholded"
        BY <2>3, <3>1 DEF Lock, RejectProviders, Move, TypeOK
      <4> QED BY <4>1 DEF Nothing
    <3>2. CASE Unlock(k)
      <4>1. given'[k] = Nothing /\ pc'[k] # "thresholded"
        BY <3>2 DEF Unlock, Move, TypeOK
      <4> QED BY <4>1 DEF Nothing
    <3>3. CASE SetProviders(k)
      <4>1. pc'[k] = "rebuilding"
        BY <3>3 DEF SetProviders, Move, TypeOK
      <4> QED BY <4>1
    <3>4. CASE SetDispatcher(k)
      <4>1. /\ UNCHANGED <<cfg, engine, given>> /\ pc'[k] = "searchable"
            /\ disp'.capacity = Capacity(cfg.concurrency) /\ disp'.threshold = engine
        BY <3>4 DEF SetDispatcher, NewDispatcher, Move, TypeOK
      <4> QED BY <4>1
    <3>5. CASE SetVoyage(k)
      <4>1. /\ UNCHANGED <<cfg, engine, disp>> /\ pc[k] # "rebuilding" /\ pc'[k] = "embeddable"
            /\ given'[k] = [given[k] EXCEPT !.voyage = TRUE]
        BY <3>5 DEF SetVoyage, TypeOK
      <4>2. /\ given'[k].providers = given[k].providers
            /\ given'[k].concurrency = given[k].concurrency
            /\ given'[k].threshold = given[k].threshold
        BY <2>2, <4>1 DEF Arguments
      <4> QED BY <2>2, <4>1, <4>2
    <3>6. CASE SetConcurrency(k)
      <4>1. PICK conc \in ConcArgs : given' = [given EXCEPT ![k].concurrency = {conc \div 10}]
        BY <3>6 DEF SetConcurrency
      <4> DEFINE n == conc \div 10
      <4>2. given'[k] = [given[k] EXCEPT !.concurrency = {n}]
        BY <4>1 DEF TypeOK
      <4> HIDE DEF n
      <4>3. /\ given'[k].providers = given[k].providers /\ given'[k].concurrency = {n}
            /\ given'[k].threshold = given[k].threshold
        BY <2>2, <4>2 DEF Arguments
      <4>4. UNCHANGED <<engine, disp>> /\ pc[k] # "rebuilding" /\ pc'[k] = "sized"
        BY <3>6 DEF SetConcurrency, TypeOK
      <4> QED BY <2>2, <4>3, <4>4
    <3>7. CASE SetThreshold(k)
      <4>1. PICK n \in ThreshArgs :
              /\ cfg' = [cfg EXCEPT !.threshold = n]
              /\ given' = [given EXCEPT ![k].threshold = {n}]
        BY <3>7 DEF SetThreshold
      <4>2. given'[k] = [given[k] EXCEPT !.threshold = {n}] /\ cfg'.concurrency = cfg.concurrency
        BY <4>1 DEF TypeOK
      <4>3. /\ given'[k].providers = given[k].providers /\ given'[k].threshold = {n}
            /\ given'[k].concurrency = given[k].concurrency
        BY <2>2, <4>2 DEF Arguments
      <4>4. UNCHANGED <<engine, disp>> /\ pc[k] # "rebuilding" /\ pc'[k] = "thresholded"
        BY <3>7 DEF SetThreshold, TypeOK
      <4> QED BY <2>2, <4>2, <4>3, <4>4
    <3>8. CASE SetEngine(k)
      <4>1. /\ UNCHANGED <<cfg, disp, given>> /\ pc[k] = "thresholded" /\ pc'[k] = "configured"
        BY <3>8 DEF SetEngine, Move, TypeOK
      <4> QED BY <2>2, <4>1
    <3>9. CASE Answer(k)
      <4>1. /\ UNCHANGED <<cfg, disp, engine, given>> /\ pc[k] # "rebuilding"
            /\ pc'[k] = "answered"
        BY <3>9 DEF Answer, shared, TypeOK
      <4> QED BY <2>2, <4>1
    <3> QED BY <1>1, <3>1, <3>2, <3>3, <3>4, <3>5, <3>6, <3>7, <3>8, <3>9 DEF ConfigStep
  <2> QED BY <2>1, <2>4 DEF Rebuilt
<1>2. CASE UNCHANGED <<cfg, provs, engine, disp, voyage, pc, given, reply>>
  BY <1>2 DEF Rebuilt
<1> QED BY <1>1, <1>2, ToolsKeepConfiguration DEF Next, vars, shared

-------------------------------------------------------------------------------
(* The theorems. *)

LEMMA InitIsInductive == Init => Inductive
<1> SUFFICES ASSUME Init PROVE Inductive
  OBVIOUS
<1>1. cfg \in [concurrency : Int, threshold : Int] /\ provs \in Available
  BY HandlerAssumption DEF Init
<1>2. engine \in Int /\ engine > 0
  BY <1>1, EffectivePositive DEF Init
<1>3. disp \in Dispatchers /\ Usable(disp) /\ disp.providers = provs
  BY <1>1, <1>2, NewDispatcherUsable DEF Init
<1>4. Nothing \in Arguments
  BY DEF Nothing, Arguments
<1>5. TypeOK
  BY <1>1, <1>2, <1>3, <1>4 DEF Init, TypeOK
<1>6. ConfigIsAlone
  BY HandlerAssumption DEF Init, ConfigIsAlone
<1>7. PartsAgree /\ AllUsable
  BY <1>3 DEF Init, PartsAgree, AllUsable
<1>8. Truthful
  BY DEF Init, Truthful, Applied, Nothing
<1>9. Rebuilt
  BY DEF Init, Rebuilt, Nothing
<1> QED BY <1>2, <1>5, <1>6, <1>7, <1>8, <1>9 DEF Inductive

(* However tool calls overlap, config is alone while it changes the parts   *)
(* of the handler, they agree when it is done, and no tool ever reads a     *)
(* dispatcher that is not usable.                                           *)
THEOREM HandlerInvariant == Spec => []Inductive
<1>1. TypeOK /\ engine > 0 /\ [Next]_vars => TypeOK'
  <2>1. CASE UNCHANGED vars
    BY <2>1 DEF vars, shared, lock, TypeOK
  <2> QED BY <2>1, ConfigTypes, ToolTypes DEF Next
<1>2. Inductive /\ [Next]_vars => Inductive'
  BY <1>1, LockStep, PartsStep, UsableStep, TruthfulStep, RebuiltStep DEF Inductive
<1> QED BY InitIsInductive, <1>2, PTL DEF Spec

(* What config answers is what its own caller gave.  Its provider list is   *)
(* the one searches use and its threshold the one of h.Consensus; where the *)
(* call gave a provider list, the dispatcher has the concurrency and the    *)
(* threshold of the answer too, unless the call gave those as well.         *)
THEOREM RepliesAreInForce == Spec => []ReplyInForce
<1>1. Inductive => ReplyInForce
  <2> SUFFICES ASSUME Inductive, NEW k \in Configs, NEW r \in reply[k]
               PROVE  /\ given[k].providers \subseteq {r.providers}
                      /\ given[k].concurrency \subseteq {r.concurrency}
                      /\ given[k].threshold \subseteq {r.threshold}
                      /\ given[k].voyage => r.voyage
                      /\ disp.providers = r.providers
                      /\ engine = Effective(r.threshold)
                      /\ given[k].providers # {} =>
                           /\ given[k].concurrency = {} =>
                                disp.capacity = Capacity(r.concurrency)
                           /\ given[k].threshold = {} =>
                                disp.threshold = Effective(r.threshold)
    BY DEF ReplyInForce
  <2>1. pc[k] = "answered" /\ r = Report /\ Applied(k)
    BY DEF Inductive, Truthful
  <2>2. \A j \in Configs : pc[j] \notin {"rebuilding", "thresholded"}
    BY <2>1 DEF Inductive, ConfigIsAlone
  <2>3. disp.providers = provs /\ engine = Effective(cfg.threshold)
    BY <2>2 DEF Inductive, PartsAgree
  <2>4. given[k].providers # {} =>
          /\ given[k].concurrency = {} => disp.capacity = Capacity(cfg.concurrency)
          /\ given[k].threshold = {} => disp.threshold = engine
    BY <2>1 DEF Inductive, Rebuilt
  <2> QED BY <2>1, <2>3, <2>4 DEF Applied, Report
<1> QED BY <1>1, HandlerInvariant, PTL

(* A dispatcher read without the lock can run a batch and can refuse        *)
(* evidence.                                                                *)
THEOREM DispatchersAreUsable == Spec => []ReadersGetUsable
<1>1. Inductive => ReadersGetUsable
  BY DEF Inductive, AllUsable, ReadersGetUsable
<1> QED BY <1>1, HandlerInvariant, PTL

(* What a tool reads of h.Dispatcher while no config call is in progress    *)
(* has the present provider list, whatever calls came before.               *)
THEOREM SearchesUseTheList == Spec => SearchesStartCurrent
<1>1. ASSUME Inductive, [Next]_vars, NEW c \in Callers, using'[c] # using[c], writer = NoOne,
             NEW d \in using'[c]
      PROVE  d.providers = provs
  <2>1. disp.providers = provs /\ disp \in Dispatchers
    BY <1>1, HandlerAssumption DEF Inductive, TypeOK, ConfigIsAlone, PartsAgree
  <2>2. [disp EXCEPT !.threshold = engine].providers = provs
    BY <2>1 DEF Dispatchers
  <2>3. PICK e \in Callers : ToolStep(e)
    BY <1>1 DEF Next, Lock, ConfigStep, RejectProviders, SetProviders, SetDispatcher, SetVoyage,
                SetConcurrency, SetThreshold, SetEngine, Answer, Unlock, Call, Locking, GetTable,
                Summarize, SetTable, vars
  <2> DEFINE judging == [disp EXCEPT !.threshold = engine]
  <2> HIDE DEF judging
  <2>4. using' = using \/ \E D \in {{}, {disp}, {judging}} : using' = [using EXCEPT ![e] = D]
    BY <1>1, <2>3 DEF ToolStep, EndSummary, SearchRow, ValidateByDispatcher, ValidateByEngine,
                      SearchBatch, LaunchRows, Return, judging
  <2>5. e = c
    BY <1>1, <2>4 DEF Inductive, TypeOK
  <2>6. using'[c] \in {{}, {disp}, {judging}}
    BY <1>1, <2>4, <2>5 DEF Inductive, TypeOK
  <2>7. d = disp \/ d = judging
    BY <1>1, <2>6
  <2> QED BY <2>1, <2>2, <2>7 DEF judging
<1>2. /\ Inductive /\ [Next]_vars
      => [\A c \in Callers : using'[c] # using[c] /\ writer = NoOne =>
            \A d \in using'[c] : d.providers = provs]_using
  BY <1>1
<1> QED BY <1>2, HandlerInvariant, PTL DEF Spec, SearchesStartCurrent
===============================================================================
