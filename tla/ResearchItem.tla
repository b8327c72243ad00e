---------------------------- MODULE ResearchItem ----------------------------
(***************************************************************************)
(* One models.ResearchItem and the calls that work on it: the tools        *)
(* search_row, validate, voyage_store and export, and the worker of a      *)
(* batch, which does what search_row does.  Each call is a goroutine;      *)
(* SearchItem and each round of retries (searchWithQuery) start one more   *)
(* goroutine per available provider, which append under a mutex that       *)
(* belongs to that call alone.  The item itself has no lock.               *)
(*                                                                         *)
(* A provider's answer is reduced to one value per validated field, or     *)
(* none (no result, nothing extracted, an error).  Values that differ here *)
(* are values the engine would not cluster, so that its verdict is Vote's; *)
(* Consensus models clustering.                                            *)
(***************************************************************************)
EXTENDS Vote

CONSTANTS
  Callers,       \* goroutines that call a tool on this item
  MaxCalls,      \* bound on the calls each of them makes
  Tools,         \* the tools they call
  Fields,        \* item.ValidateFields
  Configured,    \* the max_retries NewDispatcher is given
  StoreFails     \* whether an UPDATE of the item's row may fail

NoOne == "no one"

ASSUME ItemAssumption ==
  /\ IsFiniteSet(Callers) /\ Callers # {}
  /\ MaxCalls \in Nat
  /\ Tools \subseteq {"search_row", "validate", "voyage_store", "export"}
  /\ NoValue \notin Values /\ NoOne \notin Providers
  /\ ThresholdPct \in 1 .. 100
  /\ Configured \in Int
  /\ StoreFails \in BOOLEAN

VARIABLES
  status, results, consensus, retryCount,  \* the item
  itemRow,   \* its row in research_items
  pc,        \* control point of each caller
  calls,     \* calls each caller has made
  verdict,   \* the (consensus, passed) each caller has computed
  budget,    \* the RetryCount each caller has read
  todo,      \* fields each caller still has to search again
  search,    \* control point of each caller's provider goroutines
  answer,    \* what they have found
  mutex,     \* the provider that holds each caller's mutex, or none
  tail,      \* the slice a goroutine has read and not yet stored
  copy       \* the item as a caller's UpdateItemStatus or export has read it

item   == <<status, results, consensus, retryCount>>
locals == <<calls, verdict, budget, todo, copy>>
fanOut == <<search, answer, mutex, tail>>
vars   == <<item, itemRow, pc, locals, fanOut>>

(* NewDispatcher replaces a non-positive number of retries by its default. *)
MaxRetries == IF Configured <= 0 THEN 2 ELSE Configured

ItemStatus == {"pending", "searching", "searched", "validated", "conflict", "done"}
Answers    == [Fields -> Values \cup {NoValue}]
Agreement  == {"none", "passed", "split", "poor"}
Points     == {"idle", "searching", "searched", "judged", "stored", "granted", "retrying",
               "refining", "rejudged", "restored", "settled", "saving", "embedding", "admitted",
               "exporting"}

-------------------------------------------------------------------------------
(* ConsensusEngine.Validate and ValidateItem. *)

(* The vote on each field: Agree of Vote. *)
Verdict(rs) == [f \in Fields |-> Agree(rs, f)]
Passed(cs)  == \A f \in Fields : cs[f] = "passed"
NoVerdict   == [f \in Fields |-> "none"]

-------------------------------------------------------------------------------
Init ==
  /\ status = "pending"
  /\ results = [p \in Providers |-> <<>>]
  /\ consensus = NoVerdict
  /\ retryCount = 0
  /\ itemRow = item
  /\ pc = [c \in Callers |-> "idle"]
  /\ calls = [c \in Callers |-> 0]
  /\ verdict = [c \in Callers |-> NoVerdict]
  /\ budget = [c \in Callers |-> 0]
  /\ todo = [c \in Callers |-> {}]
  /\ copy = [c \in Callers |-> item]
  /\ search = [c \in Callers |-> [p \in Providers |-> "off"]]
  /\ answer = [c \in Callers |-> [p \in Providers |-> [f \in Fields |-> NoValue]]]
  /\ mutex = [c \in Callers |-> NoOne]
  /\ tail = [c \in Callers |-> <<>>]

At(c, from, to) ==
  /\ pc[c] = from
  /\ pc' = [pc EXCEPT ![c] = to]

Calling(c, tool) ==
  /\ tool \in Tools
  /\ calls[c] < MaxCalls
  /\ calls' = [calls EXCEPT ![c] = @ + 1]

-------------------------------------------------------------------------------
(* SearchItem, and the fan-out it shares with searchWithQuery. *)

FanOut(c) == search' = [search EXCEPT ![c] = [p \in Providers |-> "out"]]
Joined(c) == \A p \in Providers : search[c][p] = "done"

ForgetVerdict(c) ==
  /\ At(c, "idle", "searching")
  /\ Calling(c, "search_row")
  /\ status' = "searching"
  /\ consensus' = NoVerdict
  /\ FanOut(c)
  /\ UNCHANGED <<results, retryCount, itemRow, verdict, budget, todo, copy,
                 answer, mutex, tail>>
SearchItem(c) ==
  /\ At(c, "idle", "searching")
  /\ Calling(c, "search_row")
  /\ status' = "searching"
  /\ FanOut(c)
  /\ UNCHANGED <<results, consensus, retryCount, itemRow, verdict, budget, todo, copy,
                 answer, mutex, tail>>

(* A provider answers, or fails or times out, which leaves no value.        *)
Answer(c, p) ==
  /\ search[c][p] = "out"
  /\ \E a \in Answers : answer' = [answer EXCEPT ![c][p] = a]
  /\ search' = [search EXCEPT ![c][p] = "ready"]
  /\ UNCHANGED <<item, itemRow, pc, locals, mutex, tail>>

(* mu.Lock(), and the read half of the append ... *)
Lock(c, p) ==
  /\ search[c][p] = "ready"
  /\ mutex[c] = NoOne
  /\ mutex' = [mutex EXCEPT ![c] = p]
  /\ tail' = [tail EXCEPT ![c] = results[p]]
  /\ search' = [search EXCEPT ![c][p] = "held"]
  /\ UNCHANGED <<item, itemRow, pc, locals, answer>>

(* ... the store half, mu.Unlock() and wg.Done(). *)
Overwrite(c, p) ==
  /\ search[c][p] = "held"
  /\ results' = [results EXCEPT ![p] = <<answer[c][p]>>]
  /\ mutex' = [mutex EXCEPT ![c] = NoOne]
  /\ search' = [search EXCEPT ![c][p] = "done"]
  /\ UNCHANGED <<status, consensus, retryCount, itemRow, pc, locals, answer, tail>>
KeepLocked(c, p) ==
  /\ search[c][p] = "held"
  /\ results' = [results EXCEPT ![p] = Append(tail[c], answer[c][p])]
  /\ search' = [search EXCEPT ![c][p] = "done"]
  /\ UNCHANGED <<status, consensus, retryCount, itemRow, pc, locals, answer, mutex, tail>>
Store(c, p) ==
  /\ search[c][p] = "held"
  /\ results' = [results EXCEPT ![p] = Append(tail[c], answer[c][p])]
  /\ mutex' = [mutex EXCEPT ![c] = NoOne]
  /\ search' = [search EXCEPT ![c][p] = "done"]
  /\ UNCHANGED <<status, consensus, retryCount, itemRow, pc, locals, answer, tail>>

(* wg.Wait() returns. *)
EndSearch(c) ==
  /\ At(c, "searching", "searched")
  /\ Joined(c)
  /\ status' = "searched"
  /\ UNCHANGED <<results, consensus, retryCount, itemRow, locals, fanOut>>

-------------------------------------------------------------------------------
(* Dispatcher.ValidateItem. *)

(* The engine reads the results ... *)
Judge(c) ==
  /\ At(c, "searched", "judged")
  /\ verdict' = [verdict EXCEPT ![c] = Verdict(results)]
  /\ UNCHANGED <<item, itemRow, calls, budget, todo, copy, fanOut>>

(* ... its verdict is stored ...                                            *)
StoreVerdict(c) ==
  /\ At(c, "judged", "stored") \/ At(c, "rejudged", "restored")
  /\ consensus' = verdict[c]
  /\ UNCHANGED <<status, results, retryCount, itemRow, locals, fanOut>>

(* ... and then the status.  A verdict that did not pass asks for a retry,  *)
(* which the budget grants or not.                                          *)
GrantOneMore(c) ==
  /\ pc[c] = "stored"
  /\ pc' = [pc EXCEPT ![c] = IF Passed(verdict[c]) \/ retryCount > MaxRetries
                             THEN "settled" ELSE "granted"]
  /\ status' = IF Passed(verdict[c]) THEN "validated"
               ELSE IF retryCount > MaxRetries THEN "conflict" ELSE status
  /\ budget' = [budget EXCEPT ![c] = retryCount]
  /\ UNCHANGED <<results, consensus, retryCount, itemRow, calls, verdict, todo, copy, fanOut>>
LeaveStatus(c) ==
  /\ pc[c] = "stored"
  /\ pc' = [pc EXCEPT ![c] = IF Passed(verdict[c]) \/ retryCount >= MaxRetries
                             THEN "settled" ELSE "granted"]
  /\ status' = IF Passed(verdict[c]) THEN "validated" ELSE status
  /\ budget' = [budget EXCEPT ![c] = retryCount]
  /\ UNCHANGED <<results, consensus, retryCount, itemRow, calls, verdict, todo, copy, fanOut>>
Settle(c) ==
  /\ \/ /\ At(c, "stored", "settled")
        /\ Passed(verdict[c])
        /\ status' = "validated"
        /\ UNCHANGED budget
     \/ /\ At(c, "stored", "settled")
        /\ ~Passed(verdict[c]) /\ retryCount >= MaxRetries
        /\ status' = "conflict"
        /\ UNCHANGED budget
     \/ /\ At(c, "stored", "granted")
        /\ ~Passed(verdict[c]) /\ retryCount < MaxRetries
        /\ budget' = [budget EXCEPT ![c] = retryCount]
        /\ UNCHANGED status
  /\ UNCHANGED <<results, consensus, retryCount, itemRow, calls, verdict, todo, copy, fanOut>>

(* item.RetryCount++ is a plain read and a plain write: the value read may  *)
(* be the one the test saw or the current one.  Then the fields in conflict *)
(* are searched again one after the other, in the order of a map.           *)
SpendRetry(c) ==
  /\ At(c, "granted", "retrying")
  /\ retryCount' \in {budget[c] + 1, retryCount + 1}
  /\ todo' = [todo EXCEPT ![c] = {f \in Fields : verdict[c][f] = "split"}]
  /\ UNCHANGED <<status, results, consensus, itemRow, calls, verdict, budget, copy, fanOut>>

Refine(c) ==
  /\ At(c, "retrying", "refining")
  /\ \E f \in todo[c] : todo' = [todo EXCEPT ![c] = @ \ {f}]
  /\ FanOut(c)
  /\ UNCHANGED <<item, itemRow, calls, verdict, budget, copy, answer, mutex, tail>>

EndRefine(c) ==
  /\ At(c, "refining", "retrying")
  /\ Joined(c)
  /\ UNCHANGED <<item, itemRow, locals, fanOut>>

(* After the retries the engine judges again, and that verdict is final.    *)
KeepVerdict(c) ==
  /\ At(c, "retrying", "rejudged")
  /\ todo[c] = {}
  /\ UNCHANGED <<item, itemRow, locals, fanOut>>
Rejudge(c) ==
  /\ At(c, "retrying", "rejudged")
  /\ todo[c] = {}
  /\ verdict' = [verdict EXCEPT ![c] = Verdict(results)]
  /\ UNCHANGED <<item, itemRow, calls, budget, todo, copy, fanOut>>

Resettle(c) ==
  /\ At(c, "restored", "settled")
  /\ status' = IF Passed(verdict[c]) THEN "validated" ELSE "conflict"
  /\ UNCHANGED <<results, consensus, retryCount, itemRow, locals, fanOut>>

(* UpdateItemStatus reads the item into the statement's arguments and       *)
(* writes the row, or fails; the tool drops its error and returns.          *)
ReadStatusOnly(c) ==
  /\ At(c, "settled", "saving")
  /\ copy' = [copy EXCEPT ![c] = <<status, itemRow[2], itemRow[3], itemRow[4]>>]
  /\ UNCHANGED <<item, itemRow, calls, verdict, budget, todo, fanOut>>
ReadItem(c) ==
  /\ At(c, "settled", "saving")
  /\ copy' = [copy EXCEPT ![c] = item]
  /\ UNCHANGED <<item, itemRow, calls, verdict, budget, todo, fanOut>>

UpdateItemStatus(c) ==
  /\ At(c, "saving", "idle")
  /\ itemRow' \in {copy[c]} \cup (IF StoreFails THEN {itemRow} ELSE {})
  /\ UNCHANGED <<item, locals, fanOut>>

-------------------------------------------------------------------------------
(* The tools validate, voyage_store and export. *)

(* Only an item that has been searched is validated ...                     *)
Validate(c) ==
  /\ At(c, "idle", "admitted")
  /\ Calling(c, "validate")
  /\ status \in {"searched", "conflict"}
  /\ todo' = [todo EXCEPT ![c] = {}]
  /\ UNCHANGED <<item, itemRow, verdict, budget, copy, fanOut>>

(* ... and with retry_conflicts one in conflict goes through the            *)
(* dispatcher's ValidateItem; anything else is only judged again, as after  *)
(* a retry with no field to search.                                         *)
ChooseValidation(c) ==
  /\ \/ At(c, "admitted", "retrying")
     \/ At(c, "admitted", "searched") /\ status = "conflict"
  /\ UNCHANGED <<item, itemRow, locals, fanOut>>

(* voyage_store picks the item when it is validated, calls the embedding    *)
(* service, and marks it when the answer is there; an error changes nothing.*)
CollectItem(c) ==
  /\ At(c, "idle", "embedding")
  /\ Calling(c, "voyage_store")
  /\ status \in {"validated", "done"}
  /\ UNCHANGED <<item, itemRow, verdict, budget, todo, copy, fanOut>>

EmbedFails(c) ==
  /\ At(c, "embedding", "idle")
  /\ UNCHANGED <<item, itemRow, locals, fanOut>>

MarkDone(c) ==
  /\ At(c, "embedding", "settled")
  /\ status' = "done"
  /\ UNCHANGED <<results, consensus, retryCount, itemRow, locals, fanOut>>

(* export builds an item's row without a lock, the status before the        *)
(* consensus.                                                               *)
ReadStatus(c) ==
  /\ At(c, "idle", "exporting")
  /\ Calling(c, "export")
  /\ copy' = [copy EXCEPT ![c] = <<status, @[2], @[3], @[4]>>]
  /\ UNCHANGED <<item, itemRow, verdict, budget, todo, fanOut>>

ReadConsensus(c) ==
  /\ At(c, "exporting", "idle")
  /\ copy' = [copy EXCEPT ![c] = <<@[1], @[2], consensus, @[4]>>]
  /\ UNCHANGED <<item, itemRow, calls, verdict, budget, todo, fanOut>>

-------------------------------------------------------------------------------
CallerStep(c) ==
  \/ EndSearch(c) \/ Judge(c) \/ StoreVerdict(c) \/ Settle(c) \/ SpendRetry(c)
  \/ Refine(c) \/ EndRefine(c) \/ Rejudge(c) \/ Resettle(c)
  \/ ReadItem(c) \/ UpdateItemStatus(c)
  \/ ChooseValidation(c) \/ EmbedFails(c) \/ MarkDone(c) \/ ReadConsensus(c)
ProviderStep(c, p) == Answer(c, p) \/ Lock(c, p) \/ Store(c, p)
Call(c) == SearchItem(c) \/ Validate(c) \/ CollectItem(c) \/ ReadStatus(c)

(* Every call has been made and has returned, or cannot be made: the tools  *)
(* refuse an item in its present state.                                     *)
Over == (\A c \in Callers : pc[c] = "idle") /\ UNCHANGED vars

Next ==
  \/ \E c \in Callers : Call(c) \/ CallerStep(c) \/ \E p \in Providers : ProviderStep(c, p)
  \/ Over

(* A goroutine that can run is run, and a provider or the embedding service *)
(* answers before the timeout of its http.Client.                           *)
Fairness ==
  \A c \in Callers :
    /\ WF_vars(CallerStep(c))
    /\ \A p \in Providers : WF_vars(ProviderStep(c, p))

Spec == Init /\ [][Next]_vars /\ Fairness

-------------------------------------------------------------------------------
(* Properties. *)

Item == ItemStatus \X [Providers -> Seq(Answers)] \X [Fields -> Agreement] \X Nat

TypeOK ==
  /\ status \in ItemStatus
  /\ results \in [Providers -> Seq(Answers)]
  /\ consensus \in [Fields -> Agreement]
  /\ retryCount \in Nat
  /\ itemRow \in Item /\ copy \in [Callers -> Item]
  /\ pc \in [Callers -> Points]
  /\ calls \in [Callers -> 0 .. MaxCalls]
  /\ verdict \in [Callers -> [Fields -> Agreement]]
  /\ budget \in [Callers -> Nat]
  /\ todo \in [Callers -> SUBSET Fields]
  /\ search \in [Callers -> [Providers -> {"off", "out", "ready", "held", "done"}]]
  /\ answer \in [Callers -> [Providers -> Answers]]
  /\ mutex \in [Callers -> Providers \cup {NoOne}]
  /\ tail \in [Callers -> Seq(Answers)]

Idle == \A c \in Callers : pc[c] = "idle"

(* The critical section around item.Results is entered by one goroutine of  *)
(* a call at a time, and by none while that call reads the results: mu and  *)
(* wg.Wait() in SearchItem and searchWithQuery.                             *)
ResultsExclusive ==
  \A c \in Callers :
    /\ \A p, q \in Providers : search[c][p] = "held" /\ search[c][q] = "held" => p = q
    /\ pc[c] \notin {"searching", "refining"} =>
         \A p \in Providers : search[c][p] \in {"off", "done"}

FirstOf(s, t) == Len(s) <= Len(t) /\ SubSeq(t, 1, Len(s)) = s

(* With one call at a time no provider's result is ever dropped, by a later *)
(* search or by a retry.                                                    *)
ResultsOnlyGrow ==
  [][\A p \in Providers : FirstOf(results[p], results'[p])]_results

(* With one call at a time an item nobody works on shows the verdict on all *)
(* the evidence it holds: the status never disagrees with the consensus and *)
(* the consensus never lags behind the results, after a retry in particular.*)
VerdictFollowsEvidence ==
  (Idle /\ status # "pending") =>
    /\ consensus = Verdict(results)
    /\ status \in {"validated", "done"} <=> Passed(consensus)

(* With one call at a time a row of the store may be behind its item, where *)
(* an UpdateItemStatus has failed, but it is never torn: what it shows was   *)
(* true of the item once.  Its consensus is the verdict on the results it    *)
(* holds, its status is that verdict's, and its results are the first ones   *)
(* of the item's.                                                           *)
EarlierVerdict(row) ==
  /\ row[1] # "pending" =>
       /\ row[3] = Verdict(row[2])
       /\ row[1] \in {"validated", "done"} <=> Passed(row[3])
  /\ \A p \in Providers : FirstOf(row[2][p], results[p])
RowIsEarlierVerdict == EarlierVerdict(itemRow)

(* What search_row's "Persist" (search.go:43) asks for: once no call works   *)
(* on an item, its row is the item.  Even where no write fails, a call that  *)
(* has read the item before another one changed it may write its row last.   *)
RowMatchesItem == Idle => itemRow = item

(* However the calls interleave, and although RetryCount is tested and      *)
(* incremented without a lock, it exceeds the budget by less than one per   *)
(* concurrent caller.                                                       *)
RetryBudget == retryCount <= MaxRetries + Cardinality(Callers) - 1

(* However the calls interleave, once they have all returned the item is    *)
(* not left "searching" or "searched": every path of ValidateItem that ends *)
(* a search writes a verdict.                                               *)
NoCallLeavesSearching == Idle => status \notin {"searching", "searched"}

(* A row that export shows as validated, in conflict or done has a verdict  *)
(* for every field, whatever the calls that overlap with it do between its  *)
(* two reads: ValidateItem stores the consensus before the status, and a    *)
(* new search forgets neither.                                              *)
VerdictsComeWithResults ==
  \A c \in Callers : pc[c] = "exporting" /\ copy[c][1] \in {"validated", "conflict", "done"} =>
    \A f \in Fields : consensus[f] # "none"

(* What voyage_store is registered for (server.go:229), to embed and mark    *)
(* validated results: an idle item that is "done" passed its validation.  A  *)
(* search of another caller may turn it into a conflict while the embedding  *)
(* service answers, and the mark then hides that.                            *)
DoneWasValidated == Idle /\ status = "done" => Passed(consensus)

(* Every call returns: no goroutine waits for ever on mu or on wg.          *)
CallsReturn == \A c \in Callers : pc[c] # "idle" ~> pc[c] = "idle"

(* The inductive invariant behind ResultsExclusive, RetryBudget,            *)
(* NoCallLeavesSearching and VerdictsComeWithResults, in named parts.       *)

(* A goroutine in the critical section holds its call's mutex.              *)
HolderIsInside ==
  \A c \in Callers, p \in Providers : search[c][p] = "held" => mutex[c] = p

(* A call's provider goroutines run only while it waits for them.           *)
JoinedOutside ==
  \A c \in Callers : pc[c] \notin {"searching", "refining"} =>
    \A p \in Providers : search[c][p] \in {"off", "done"}

(* A granted retry is reserved: its caller saw room in the budget.          *)
Granted == {c \in Callers : pc[c] = "granted"}
RetriesReserved ==
  /\ \A c \in Granted : budget[c] < MaxRetries
  /\ retryCount + Cardinality(Granted) <= MaxRetries + Cardinality(Callers) - 1

(* An item that is being searched has a caller that will settle it.         *)
Working == {"searching", "searched", "judged", "stored", "granted", "retrying", "refining",
            "rejudged", "restored"}
SearchHasOwner ==
  status \in {"searching", "searched"} => \E c \in Callers : pc[c] \in Working

(* A caller that has judged has something to store for every field, and a   *)
(* call that shows or is about to show the item as settled finds it stored. *)
Judged(cs) == \A f \in Fields : cs[f] # "none"
Settled    == {"validated", "conflict", "done"}
VerdictComesFirst ==
  /\ \A c \in Callers : pc[c] \in {"judged", "rejudged"} => Judged(verdict[c])
  /\ (status \in Settled \/ \E c \in Callers : pc[c] \in {"stored", "restored", "embedding"})
       => Judged(consensus)

Inductive ==
  TypeOK /\ HolderIsInside /\ JoinedOutside /\ RetriesReserved /\ SearchHasOwner
  /\ VerdictComesFirst /\ VerdictsComeWithResults

(* What holds besides when c is the only caller, in named parts.            *)

(* Between searches the status and the consensus are about all the results. *)
Quiet == {"idle", "admitted", "embedding", "exporting", "settled", "saving"}
VerdictCurrent(c) ==
  /\ pc[c] \in Quiet /\ status # "pending" =>
       /\ consensus = Verdict(results)
       /\ status \in {"validated", "done"} <=> Passed(consensus)
  /\ pc[c] \in {"judged", "stored", "rejudged", "restored"} => verdict[c] = Verdict(results)
  /\ pc[c] \in {"stored", "restored"} => consensus = verdict[c]
  /\ pc[c] = "embedding" => status \in {"validated", "done"}

(* UpdateItemStatus is about to write the item, and the row was the item.   *)
RowBehind(c) ==
  /\ RowIsEarlierVerdict
  /\ pc[c] = "saving" => copy[c] = item

(* A goroutine in the critical section appends to the present slice.        *)
TailCurrent(c) == \A p \in Providers : search[c][p] = "held" => tail[c] = results[p]

Sequential(c) == VerdictCurrent(c) /\ RowBehind(c) /\ TailCurrent(c)
===============================================================================
