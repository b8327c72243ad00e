------------------------------- MODULE Handler -------------------------------
(***************************************************************************)
(* tools.Handler: the configuration, the engines and the lock that every    *)
(* MCP tool shares (internal/tools/handler.go, config.go, status.go), as    *)
(* main.go and server.New set them up.  Tool calls run concurrently.        *)
(*                                                                         *)
(* ricerkatoro_config holds h.mu from its first line to its return, and     *)
(* load_table to put its table into h.Tables; the other tools take it for   *)
(* reading just to find their table, and then read h.Dispatcher and         *)
(* h.Consensus with no lock at all.  A Dispatcher is immutable, so it is    *)
(* the record of what NewDispatcher was given; a ConsensusEngine is its     *)
(* threshold.  What the calls do to the items is ResearchItem, Dispatcher   *)
(* and Server.  max_retries, the transport and the store's path are fixed   *)
(* at the start and left out, and so is what the voyage tools read of       *)
(* h.Voyage.                                                                *)
(***************************************************************************)
EXTENDS Integers

CONSTANTS
  Configs,         \* calls of ricerkatoro_config that may overlap
  Callers,         \* calls of the other tools that may overlap
  Available,       \* provider lists: the set of names enabled and with a key
  EnvConcurrency,  \* values of MAX_CONCURRENCY, or the default 10
  EnvThresholds,   \* values of CONFIDENCE_THRESHOLD, or the default 70, in percent
  ConcArgs,        \* arguments "concurrency", in tenths
  ThreshArgs,      \* arguments "confidence_threshold", in percent
  NoOne

ASSUME HandlerAssumption ==
  /\ EnvConcurrency \subseteq Int /\ EnvThresholds \subseteq Int
  /\ ConcArgs \subseteq Nat \ {0} /\ ThreshArgs \subseteq Nat \ {0}
  /\ NoOne \notin Configs

VARIABLES
  cfg,      \* h.Cfg: MaxConcurrency and ConfidenceThreshold
  provs,    \* h.Providers
  engine,   \* h.Consensus
  disp,     \* h.Dispatcher
  voyage,   \* h.Voyage.IsAvailable()
  writer,   \* the call that holds h.mu for writing
  readers,  \* the calls that hold h.mu for reading
  pc,       \* control point of each config call
  given,    \* the arguments each has found and applied
  reply,    \* the answer each has built: a set of at most one
  at,       \* control point of each other call
  using     \* the dispatcher each other call has read: a set of at most one

shared == <<cfg, provs, engine, disp, voyage>>
lock   == <<writer, readers>>
vars   == <<shared, lock, pc, given, reply, at, using>>

(* NewConsensusEngine and NewDispatcher replace non-positive values. *)
Effective(threshold) == IF threshold <= 0 THEN 70 ELSE threshold
RawCapacity(concurrency) == concurrency
Capacity(concurrency) == IF concurrency <= 0 THEN 10 ELSE concurrency

NewDispatcher(ps, threshold, concurrency) ==
  [providers |-> ps, threshold |-> threshold, capacity |-> Capacity(concurrency)]

(* An argument is a set of at most one value: empty when it is absent. *)
Nothing == [providers |-> {}, concurrency |-> {}, threshold |-> {}, voyage |-> FALSE]

(* What config answers, from the handler as it is. *)
Report == [providers |-> provs, concurrency |-> cfg.concurrency,
           threshold |-> cfg.threshold, voyage |-> voyage]

(* loadEnvConfig and server.New. *)
Init ==
  /\ cfg \in [concurrency : EnvConcurrency, threshold : EnvThresholds]
  /\ provs \in Available
  /\ engine = Effective(cfg.threshold)
  /\ disp = NewDispatcher(provs, engine, cfg.concurrency)
  /\ voyage \in BOOLEAN
  /\ writer = NoOne /\ readers = {}
  /\ pc = [k \in Configs |-> "idle"]
  /\ given = [k \in Configs |-> Nothing]
  /\ reply = [k \in Configs |-> {}]
  /\ at = [c \in Callers |-> "idle"]
  /\ using = [c \in Callers |-> {}]

-------------------------------------------------------------------------------
(* ricerkatoro_config. *)

Move(k, from, to) == pc[k] = from /\ pc' = [pc EXCEPT ![k] = to]

LockNothing(k) ==
  /\ Move(k, "idle", "locked")
  /\ writer' = k
  /\ UNCHANGED <<shared, readers, given, reply, at, using>>
Lock(k) ==
  /\ Move(k, "idle", "locked")
  /\ writer = NoOne /\ readers = {}
  /\ writer' = k
  /\ UNCHANGED <<shared, readers, given, reply, at, using>>

(* A provider list that does not parse ends the call; h.mu is deferred.     *)
RejectProvidersLocked(k) ==
  /\ Move(k, "locked", "idle")
  /\ UNCHANGED <<shared, lock, given, reply, at, using>>
RejectProviders(k) ==
  /\ Move(k, "locked", "idle")
  /\ writer' = NoOne
  /\ UNCHANGED <<shared, readers, given, reply, at, using>>

SetProviders(k) ==
  /\ Move(k, "locked", "rebuilding")
  /\ \E ps \in Available :
       /\ provs' = ps
       /\ given' = [given EXCEPT ![k].providers = {ps}]
  /\ UNCHANGED <<cfg, engine, disp, voyage, lock, reply, at, using>>

(* The dispatcher is rebuilt with the engine and the concurrency of before  *)
(* this call.                                                               *)
KeepDispatcher(k) ==
  /\ Move(k, "rebuilding", "searchable")
  /\ UNCHANGED <<shared, lock, given, reply, at, using>>
SetDispatcher(k) ==
  /\ Move(k, "rebuilding", "searchable")
  /\ disp' = NewDispatcher(provs, engine, cfg.concurrency)
  /\ UNCHANGED <<cfg, provs, engine, voyage, lock, given, reply, at, using>>

SetVoyage(k) ==
  /\ pc[k] \in {"locked", "searchable"}
  /\ pc' = [pc EXCEPT ![k] = "embeddable"]
  /\ voyage' = TRUE
  /\ given' = [given EXCEPT ![k].voyage = TRUE]
  /\ UNCHANGED <<cfg, provs, engine, disp, lock, reply, at, using>>

(* int(conc) truncates: a fraction of a row becomes zero rows.              *)
SetConcurrency(k) ==
  /\ pc[k] \in {"locked", "searchable", "embeddable"}
  /\ pc' = [pc EXCEPT ![k] = "sized"]
  /\ \E conc \in ConcArgs :
       /\ cfg' = [cfg EXCEPT !.concurrency = conc \div 10]
       /\ given' = [given EXCEPT ![k].concurrency = {conc \div 10}]
  /\ UNCHANGED <<provs, engine, disp, voyage, lock, reply, at, using>>

SetThreshold(k) ==
  /\ pc[k] \in {"locked", "searchable", "embeddable", "sized"}
  /\ pc' = [pc EXCEPT ![k] = "thresholded"]
  /\ \E thresh \in ThreshArgs :
       /\ cfg' = [cfg EXCEPT !.threshold = thresh]
       /\ given' = [given EXCEPT ![k].threshold = {thresh}]
  /\ UNCHANGED <<provs, engine, disp, voyage, lock, reply, at, using>>

KeepEngine(k) ==
  /\ Move(k, "thresholded", "configured")
  /\ UNCHANGED <<shared, lock, given, reply, at, using>>
SetEngine(k) ==
  /\ Move(k, "thresholded", "configured")
  /\ engine' = Effective(cfg.threshold)
  /\ UNCHANGED <<cfg, provs, disp, voyage, lock, given, reply, at, using>>

Answer(k) ==
  /\ pc[k] \in {"locked", "searchable", "embeddable", "sized", "configured"}
  /\ pc' = [pc EXCEPT ![k] = "answered"]
  /\ reply' = [reply EXCEPT ![k] = {Report}]
  /\ UNCHANGED <<shared, lock, given, at, using>>

Unlock(k) ==
  /\ Move(k, "answered", "idle")
  /\ writer' = NoOne
  /\ given' = [given EXCEPT ![k] = Nothing]
  /\ reply' = [reply EXCEPT ![k] = {}]
  /\ UNCHANGED <<shared, readers, at, using>>

ConfigStep(k) ==
  \/ RejectProviders(k) \/ SetProviders(k) \/ SetDispatcher(k) \/ SetVoyage(k)
  \/ SetConcurrency(k) \/ SetThreshold(k) \/ SetEngine(k) \/ Answer(k) \/ Unlock(k)

-------------------------------------------------------------------------------
(* The other tools. *)

Go(c, from, to) == at[c] = from /\ at' = [at EXCEPT ![c] = to]

(* A tool is called and waits for h.mu. *)
Call(c) ==
  /\ \/ Go(c, "idle", "looking up")
     \/ Go(c, "idle", "summarizing")
     \/ Go(c, "idle", "loading")
  /\ UNCHANGED <<shared, lock, pc, given, reply, using>>

(* getTable takes and gives back the read lock; the table may be unknown.   *)
GetTable(c) ==
  /\ \/ Go(c, "looking up", "found")
     \/ Go(c, "looking up", "idle")
  /\ writer = NoOne
  /\ UNCHANGED <<shared, lock, pc, given, reply, using>>

(* get_status without arguments keeps it for the summary of all tables.     *)
Summarize(c) ==
  /\ Go(c, "summarizing", "summing up")
  /\ writer = NoOne
  /\ readers' = readers \cup {c}
  /\ UNCHANGED <<shared, writer, pc, given, reply, using>>
EndSummary(c) ==
  /\ Go(c, "summing up", "idle")
  /\ readers' = readers \ {c}
  /\ UNCHANGED <<shared, writer, pc, given, reply, using>>

(* load_table takes the lock for one statement, h.Tables[t.ID] = t.         *)
SetTable(c) ==
  /\ Go(c, "loading", "idle")
  /\ writer = NoOne /\ readers = {}
  /\ UNCHANGED <<shared, lock, pc, given, reply, using>>

(* search_row reads h.Dispatcher to search ...                              *)
SearchRow(c) ==
  /\ Go(c, "found", "searching")
  /\ using' = [using EXCEPT ![c] = {disp}]
  /\ UNCHANGED <<shared, lock, pc, given, reply>>

(* ... and once more to validate, as validate does to retry a conflict.     *)
ValidateByDispatcher(c) ==
  /\ at[c] \in {"searching", "found"}
  /\ at' = [at EXCEPT ![c] = "validating"]
  /\ using' = [using EXCEPT ![c] = {disp}]
  /\ UNCHANGED <<shared, lock, pc, given, reply>>

(* Otherwise validate judges by h.Consensus.                                *)
ValidateByEngine(c) ==
  /\ Go(c, "found", "validating")
  /\ using' = [using EXCEPT ![c] = {[disp EXCEPT !.threshold = engine]}]
  /\ UNCHANGED <<shared, lock, pc, given, reply>>

(* search_batch reads the dispatcher once and launches rows, each of which  *)
(* needs room in a channel of the dispatcher's capacity.                    *)
SearchBatch(c) ==
  /\ Go(c, "found", "launching")
  /\ using' = [using EXCEPT ![c] = {disp}]
  /\ UNCHANGED <<shared, lock, pc, given, reply>>
LaunchRows(c) ==
  /\ Go(c, "launching", "idle")
  /\ \A d \in using[c] : d.capacity > 0
  /\ using' = [using EXCEPT ![c] = {}]
  /\ UNCHANGED <<shared, lock, pc, given, reply>>

Return(c) ==
  /\ \/ Go(c, "validating", "idle")
     \/ Go(c, "found", "idle")
  /\ using' = [using EXCEPT ![c] = {}]
  /\ UNCHANGED <<shared, lock, pc, given, reply>>

Locking(c) == GetTable(c) \/ Summarize(c) \/ SetTable(c)
ToolStep(c) ==
  \/ EndSummary(c) \/ SearchRow(c) \/ ValidateByDispatcher(c) \/ ValidateByEngine(c)
  \/ SearchBatch(c) \/ LaunchRows(c) \/ Return(c)

-------------------------------------------------------------------------------
Next ==
  \/ \E k \in Configs : Lock(k) \/ ConfigStep(k)
  \/ \E c \in Callers : Call(c) \/ Locking(c) \/ ToolStep(c)

(* Calls in progress are run.  sync.RWMutex admits the readers that wait    *)
(* when a writer leaves, and no reader passes a waiting writer: whoever     *)
(* waits for h.mu gets it, however often others do.  No call is certain to  *)
(* be made.                                                                 *)
Fairness ==
  /\ \A k \in Configs : WF_vars(ConfigStep(k))
  /\ \A c \in Callers : SF_vars(Locking(c)) /\ WF_vars(ToolStep(c))

Spec == Init /\ [][Next]_vars /\ Fairness

-------------------------------------------------------------------------------
(* Properties. *)

Dispatchers == [providers : Available, threshold : Int, capacity : Int]
Arguments == [providers : SUBSET Available, concurrency : SUBSET Int,
              threshold : SUBSET Int, voyage : BOOLEAN]
Reports == [providers : Available, concurrency : Int, threshold : Int, voyage : BOOLEAN]

LockedPoints == {"locked", "rebuilding", "searchable", "embeddable", "sized",
                 "thresholded", "configured", "answered"}

TypeOK ==
  /\ cfg \in [concurrency : Int, threshold : Int]
  /\ provs \in Available /\ engine \in Int /\ disp \in Dispatchers /\ voyage \in BOOLEAN
  /\ writer \in Configs \cup {NoOne} /\ readers \subseteq Callers
  /\ pc \in [Configs -> LockedPoints \cup {"idle"}]
  /\ given \in [Configs -> Arguments]
  /\ reply \in [Configs -> SUBSET Reports]
  /\ at \in [Callers -> {"idle", "looking up", "summarizing", "loading", "found",
                         "summing up", "searching", "validating", "launching"}]
  /\ using \in [Callers -> SUBSET Dispatchers]

(* Only the call that holds h.mu is inside config, and nobody reads then.   *)
ConfigIsAlone ==
  /\ \A k \in Configs : pc[k] # "idle" <=> writer = k
  /\ writer # NoOne => readers = {}
  /\ readers = {c \in Callers : at[c] = "summing up"}

(* Whenever no config call is half way between h.Providers and h.Dispatcher *)
(* or between Cfg and h.Consensus, they agree.                              *)
PartsAgree ==
  /\ (\A k \in Configs : pc[k] # "rebuilding") => disp.providers = provs
  /\ (\A k \in Configs : pc[k] # "thresholded") => engine = Effective(cfg.threshold)

(* Every dispatcher a tool can read without the lock has room for a row and *)
(* a threshold that evidence can miss.                                      *)
Usable(d) == d.capacity > 0 /\ d.threshold > 0
AllUsable == Usable(disp) /\ \A c \in Callers : \A d \in using[c] : Usable(d)

(* What a call was given is still in force while it holds the lock.         *)
Applied(k) ==
  /\ given[k].providers \subseteq {provs}
  /\ given[k].concurrency \subseteq {cfg.concurrency}
  /\ given[k].threshold \subseteq {cfg.threshold}
  /\ given[k].voyage => voyage
Truthful == \A k \in Configs :
  /\ pc[k] \in {"idle", "locked"} => given[k] = Nothing
  /\ Applied(k)
  /\ reply[k] = IF pc[k] = "answered" THEN {Report} ELSE {}

(* A call that has rebuilt the dispatcher has put into it the settings it   *)
(* did not itself change later.                                             *)
Rebuilt == \A k \in Configs :
  /\ given[k].providers # {} /\ pc[k] # "rebuilding" =>
       /\ given[k].concurrency = {} => disp.capacity = Capacity(cfg.concurrency)
       /\ given[k].threshold = {} => disp.threshold = engine
  /\ pc[k] = "thresholded" => given[k].threshold # {}

Inductive ==
  TypeOK /\ ConfigIsAlone /\ PartsAgree /\ AllUsable /\ engine > 0 /\ Truthful /\ Rebuilt

(* The settings config reports are those its own caller gave, whatever      *)
(* other config calls overlap with it (the mutex around the whole of        *)
(* Config).  Of them, these are in force when it returns: the provider list *)
(* for every search, the threshold for validate, which judges by            *)
(* h.Consensus; and where the call gave a provider list, the concurrency    *)
(* and the threshold of searches too, unless the same call gave them, since *)
(* it rebuilds the dispatcher before it looks at them.                      *)
ReplyInForce ==
  \A k \in Configs : \A r \in reply[k] :
    /\ given[k].providers \subseteq {r.providers}
    /\ given[k].concurrency \subseteq {r.concurrency}
    /\ given[k].threshold \subseteq {r.threshold}
    /\ given[k].voyage => r.voyage
    /\ disp.providers = r.providers
    /\ engine = Effective(r.threshold)
    /\ given[k].providers # {} =>
         /\ given[k].concurrency = {} => disp.capacity = Capacity(r.concurrency)
         /\ given[k].threshold = {} => disp.threshold = Effective(r.threshold)

(* What config's own schema offers (server.go:121 and 122), the number of   *)
(* rows processed in parallel and the score a verdict needs: once no config *)
(* call is in progress, searches and their verdicts go by the settings it   *)
(* reports.  A call without a provider list leaves the old ones in the      *)
(* dispatcher.                                                              *)
SettingsReachSearches ==
  writer = NoOne =>
    /\ disp.capacity = Capacity(cfg.concurrency)
    /\ disp.threshold = Effective(cfg.threshold)

(* A tool that reads h.Dispatcher in the middle of a config call still gets *)
(* one it can run a batch with and whose verdicts mean something, although  *)
(* config and the environment may set the concurrency to zero or less       *)
(* (config.go truncates 0.5) and the environment the threshold.             *)
ReadersGetUsable == \A c \in Callers : \A d \in using[c] : Usable(d)

(* A tool that reads h.Dispatcher while no config call is in progress gets  *)
(* the handler's present provider list.  One that has read it before goes   *)
(* on with what it has, and one that reads it during a config call may get  *)
(* the list that call is replacing.                                         *)
SearchesStartCurrent ==
  [][\A c \in Callers : using'[c] # using[c] /\ writer = NoOne =>
       \A d \in using'[c] : d.providers = provs]_using

(* Every call returns: no path through Config keeps h.mu, and no batch      *)
(* waits for room in a channel without any.                                 *)
CallsReturn ==
  /\ \A k \in Configs : pc[k] # "idle" ~> pc[k] = "idle"
  /\ \A c \in Callers : at[c] # "idle" ~> at[c] = "idle"
===============================================================================
