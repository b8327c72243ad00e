-------------------------- MODULE ResearchItemProofs --------------------------
(***************************************************************************)
(* Theorems about ResearchItem, for every number of callers, calls,         *)
(* providers, fields and values, every threshold and every configured       *)
(* number of retries.                                                       *)
(***************************************************************************)
EXTENDS ResearchItem, FiniteSetTheorems, TLAPS

(* NewDispatcher's default makes the budget positive. *)
LEMMA BudgetPositive == MaxRetries \in Nat /\ MaxRetries > 0
BY ItemAssumption DEF MaxRetries

(* The engine's verdict is one of its three, for every field. *)
LEMMA VerdictType == \A rs : Verdict(rs) \in [Fields -> Agreement] /\ Judged(Verdict(rs))
BY DEF Verdict, Agree, Agreement, Judged

-------------------------------------------------------------------------------
(* Types. *)

(* The steps of a call's provider goroutines, and how the others look to    *)
(* them.                                                                     *)
LEMMA ProviderTypes ==
  ASSUME TypeOK, NEW c \in Callers, NEW p \in Providers, ProviderStep(c, p)
  PROVE  TypeOK'
<1> USE DEF TypeOK, item, locals
<1>1. CASE Answer(c, p)
  BY <1>1 DEF Answer, Answers
<1>2. CASE Lock(c, p)
  BY <1>2 DEF Lock
<1>3. CASE Store(c, p)
  <2>1. Append(tail[c], answer[c][p]) \in Seq(Answers)
    OBVIOUS
  <2> QED BY <1>3, <2>1 DEF Store
<1> QED BY <1>1, <1>2, <1>3 DEF ProviderStep

LEMMA CallTypes ==
  ASSUME TypeOK, NEW c \in Callers, Call(c)
  PROVE  TypeOK'
<1> USE ItemAssumption DEF TypeOK, item, locals, At, Calling, Points, fanOut, ItemStatus
<1>1. CASE SearchItem(c)
  BY <1>1 DEF SearchItem, FanOut
<1>2. CASE Validate(c)
  BY <1>2 DEF Validate
<1>3. CASE CollectItem(c)
  BY <1>3 DEF CollectItem
<1>4. CASE ReadStatus(c)
  <2>1. <<status, copy[c][2], copy[c][3], copy[c][4]>> \in Item
    BY DEF Item
  <2> QED BY <1>4, <2>1 DEF ReadStatus
<1> QED BY <1>1, <1>2, <1>3, <1>4 DEF Call

LEMMA CallerTypes ==
  ASSUME TypeOK, NEW c \in Callers, CallerStep(c)
  PROVE  TypeOK'
<1> USE DEF TypeOK, item, locals, At, Points, fanOut
<1>1. CASE EndSearch(c)
  BY <1>1 DEF EndSearch, ItemStatus
<1>2. CASE Judge(c)
  BY <1>2, VerdictType DEF Judge
<1>3. CASE Settle(c)
  <2>1. UNCHANGED <<results, consensus, retryCount, itemRow, calls, verdict, todo, copy, fanOut>>
    BY <1>3 DEF Settle
  <2>3. pc' \in [Callers -> Points] /\ budget' \in [Callers -> Nat]
    <3>1. \/ pc' = [pc EXCEPT ![c] = "settled"] /\ budget' = budget
          \/ pc' = [pc EXCEPT ![c] = "granted"] /\ budget' = [budget EXCEPT ![c] = retryCount]
      BY <1>3 DEF Settle, At
    <3>2. CASE pc' = [pc EXCEPT ![c] = "settled"] /\ budget' = budget
      BY <3>2
    <3>3. CASE /\ pc' = [pc EXCEPT ![c] = "granted"]
               /\ budget' = [budget EXCEPT ![c] = retryCount]
      BY <3>3
    <3> QED BY <3>1, <3>2, <3>3
  <2>4. status' \in ItemStatus
    BY <1>3 DEF Settle, ItemStatus
  <2>5. /\ results' = results /\ consensus' = consensus /\ retryCount' = retryCount /\ itemRow' = itemRow
        /\ calls' = calls /\ verdict' = verdict /\ todo' = todo /\ copy' = copy
        /\ search' = search /\ answer' = answer /\ mutex' = mutex /\ tail' = tail
    BY <2>1
  <2> QED BY <2>3, <2>4, <2>5
<1>4. CASE SpendRetry(c)
  BY <1>4 DEF SpendRetry
<1>5. CASE Refine(c)
  BY <1>5 DEF Refine, FanOut
<1>6. CASE EndRefine(c)
  BY <1>6 DEF EndRefine
<1>7. CASE Rejudge(c)
  BY <1>7, VerdictType DEF Rejudge
<1>8. CASE Resettle(c)
  BY <1>8 DEF Resettle, ItemStatus
<1>9. CASE ReadItem(c)
  <2>1. item \in Item
    BY DEF Item
  <2> QED BY <1>9, <2>1 DEF ReadItem
<1>10. CASE UpdateItemStatus(c)
  <2>1. itemRow' \in Item
    BY <1>10 DEF UpdateItemStatus
  <2> QED BY <1>10, <2>1 DEF UpdateItemStatus
<1>11. CASE ChooseValidation(c)
  BY <1>11 DEF ChooseValidation
<1>12. CASE EmbedFails(c)
  BY <1>12 DEF EmbedFails
<1>13. CASE MarkDone(c)
  BY <1>13 DEF MarkDone, ItemStatus
<1>14. CASE StoreVerdict(c)
  BY <1>14 DEF StoreVerdict
<1>15. CASE ReadConsensus(c)
  <2>1. <<copy[c][1], copy[c][2], consensus, copy[c][4]>> \in Item
    BY DEF Item
  <2> QED BY <1>15, <2>1 DEF ReadConsensus
<1> QED BY <1>1, <1>2, <1>3, <1>4, <1>5, <1>6, <1>7, <1>8, <1>9, <1>10, <1>11, <1>12, <1>13,
           <1>14, <1>15 DEF CallerStep

LEMMA TypeStep == TypeOK /\ [Next]_vars => TypeOK'
<1> SUFFICES ASSUME TypeOK, [Next]_vars PROVE TypeOK'
  OBVIOUS
<1>1. CASE UNCHANGED vars
  BY <1>1 DEF vars, item, locals, fanOut, TypeOK
<1>2. CASE Over
  BY <1>1, <1>2 DEF Over, vars, item, locals, fanOut, TypeOK
<1> QED BY <1>1, <1>2, ProviderTypes, CallTypes, CallerTypes DEF Next

-------------------------------------------------------------------------------
(* The critical section. *)

(* mu is held by the goroutine inside, whatever the other calls do.          *)
LEMMA HolderStep == TypeOK /\ HolderIsInside /\ [Next]_vars => HolderIsInside'
<1> SUFFICES ASSUME TypeOK, HolderIsInside, [Next]_vars PROVE HolderIsInside'
  OBVIOUS
<1> USE DEF TypeOK, HolderIsInside, fanOut
<1>1. ASSUME NEW c \in Callers, NEW p \in Providers, ProviderStep(c, p) PROVE HolderIsInside'
  <2>1. CASE Answer(c, p)
    BY <2>1 DEF Answer
  <2>2. CASE Lock(c, p)
    <3>1. \A q \in Providers : search[c][q] # "held"
      BY <2>2, ItemAssumption DEF Lock, NoOne
    <3> QED BY <2>2, <3>1 DEF Lock
  <2>3. CASE Store(c, p)
    BY <2>3 DEF Store
  <2> QED BY <1>1, <2>1, <2>2, <2>3 DEF ProviderStep
<1>2. ASSUME NEW c \in Callers, FanOut(c), mutex' = mutex PROVE HolderIsInside'
  BY <1>2 DEF FanOut
<1>3. CASE search' = search /\ mutex' = mutex
  BY <1>3
<1>4. ASSUME NEW c \in Callers, Call(c) \/ CallerStep(c) PROVE HolderIsInside'
  <2>1. mutex' = mutex /\ (FanOut(c) \/ search' = search)
    BY <1>4 DEF Call, SearchItem, Validate, CollectItem, ReadStatus, CallerStep, EndSearch, Judge, StoreVerdict, Settle,
                SpendRetry, Refine, EndRefine, Rejudge, Resettle, ReadItem, UpdateItemStatus,
                ChooseValidation, EmbedFails, MarkDone, ReadConsensus
  <2> QED BY <2>1, <1>2, <1>3
<1>5. CASE Over \/ UNCHANGED vars
  BY <1>5, <1>3 DEF Over, vars
<1> QED BY <1>1, <1>4, <1>5 DEF Next

(* wg.Wait() lets a call go on only when its provider goroutines are done.   *)
LEMMA JoinedStep == TypeOK /\ JoinedOutside /\ [Next]_vars => JoinedOutside'
<1> SUFFICES ASSUME TypeOK, JoinedOutside, [Next]_vars PROVE JoinedOutside'
  OBVIOUS
<1> USE DEF TypeOK, JoinedOutside, fanOut
<1>1. ASSUME NEW c \in Callers, NEW p \in Providers, ProviderStep(c, p) PROVE JoinedOutside'
  BY <1>1 DEF ProviderStep, Answer, Lock, Store
<1>2. ASSUME NEW c \in Callers, SearchItem(c) \/ Refine(c) PROVE JoinedOutside'
  BY <1>2 DEF SearchItem, Refine, At, FanOut
<1>3. ASSUME NEW c \in Callers, EndSearch(c) \/ EndRefine(c) PROVE JoinedOutside'
  BY <1>3 DEF EndSearch, EndRefine, At, Joined
<1>4. ASSUME NEW c \in Callers, Call(c) \/ CallerStep(c),
             ~SearchItem(c), ~Refine(c), ~EndSearch(c), ~EndRefine(c)
      PROVE  JoinedOutside'
  <2>1. /\ search' = search
        /\ pc[c] \notin {"searching", "refining"}
        /\ \A d \in Callers : d # c => pc'[d] = pc[d]
    BY <1>4 DEF Call, Validate, CollectItem, ReadStatus, CallerStep, Judge, StoreVerdict, Settle, SpendRetry, Rejudge,
                Resettle, ReadItem, UpdateItemStatus, ChooseValidation, EmbedFails, MarkDone, ReadConsensus, At
  <2> QED BY <2>1
<1>5. CASE Over \/ UNCHANGED vars
  BY <1>5 DEF Over, vars
<1> QED BY <1>1, <1>2, <1>3, <1>4, <1>5 DEF Next

-------------------------------------------------------------------------------
(* The retry budget. *)

LEMMA GrantedFinite ==
  ASSUME NEW S, S \subseteq Callers
  PROVE  /\ IsFiniteSet(S) /\ Cardinality(S) \in Nat /\ Cardinality(S) <= Cardinality(Callers)
         /\ Cardinality(Callers) \in Nat
         /\ S # Callers => Cardinality(S) <= Cardinality(Callers) - 1
<1>1. IsFiniteSet(Callers)
  BY ItemAssumption
<1>2. /\ IsFiniteSet(S) /\ Cardinality(S) <= Cardinality(Callers)
      /\ Cardinality(Callers) = Cardinality(S) => Callers = S
  BY <1>1, FS_Subset
<1>3. Cardinality(S) \in Nat /\ Cardinality(Callers) \in Nat
  BY <1>1, <1>2, FS_CardinalityType
<1> QED BY <1>2, <1>3

(* A caller that reads RetryCount reserves one retry; the one that writes it *)
(* gives its reservation up and counts at most one more, or overwrites the   *)
(* count with one it had read below the budget.                              *)
LEMMA RetriesStep == TypeOK /\ RetriesReserved /\ [Next]_vars => RetriesReserved'
<1> SUFFICES ASSUME TypeOK, RetriesReserved, [Next]_vars PROVE RetriesReserved'
  OBVIOUS
<1> USE BudgetPositive
<1>1. ASSUME NEW c \in Callers, Settle(c) PROVE RetriesReserved'
  <2>1. CASE pc'[c] = "granted"
    <3>1. retryCount < MaxRetries /\ retryCount' = retryCount
      BY <1>1, <2>1 DEF Settle, At, TypeOK
    <3>2. \A d \in Granted' : budget'[d] < MaxRetries
      BY <1>1, <2>1, <3>1 DEF Settle, At, TypeOK, Granted, RetriesReserved
    <3>3. /\ Cardinality(Granted') \in Nat /\ Cardinality(Callers) \in Nat
          /\ Cardinality(Granted') <= Cardinality(Callers)
      BY GrantedFinite DEF Granted
    <3>4. retryCount' + Cardinality(Granted') <= MaxRetries + Cardinality(Callers) - 1
      BY <3>1, <3>3 DEF TypeOK
    <3> QED BY <3>2, <3>4 DEF RetriesReserved, MaxRetries
  <2>2. CASE pc'[c] # "granted"
    <3>1. Granted' = Granted /\ retryCount' = retryCount /\ budget' = budget
      BY <1>1, <2>2 DEF Settle, At, TypeOK, Granted
    <3> QED BY <3>1 DEF RetriesReserved, MaxRetries
  <2> QED BY <2>1, <2>2
<1>2. ASSUME NEW c \in Callers, SpendRetry(c) PROVE RetriesReserved'
  <2>1. /\ c \in Granted /\ Granted' = Granted \ {c} /\ budget' = budget
        /\ budget[c] < MaxRetries
    BY <1>2 DEF SpendRetry, At, TypeOK, Granted, RetriesReserved
  <2>2. Cardinality(Granted') = Cardinality(Granted) - 1 /\ Cardinality(Granted) \in Nat
    BY <2>1, GrantedFinite, FS_RemoveElement DEF Granted
  <2>3. /\ Cardinality(Granted') <= Cardinality(Callers) - 1
        /\ Cardinality(Granted') \in Nat /\ Cardinality(Callers) \in Nat
    BY <2>1, GrantedFinite DEF Granted
  <2>4. retryCount' + Cardinality(Granted') <= MaxRetries + Cardinality(Callers) - 1
    <3>1. CASE retryCount' = budget[c] + 1
      BY <2>1, <2>3, <3>1 DEF TypeOK
    <3>2. CASE retryCount' = retryCount + 1
      BY <2>2, <2>3, <3>2 DEF TypeOK, RetriesReserved
    <3> QED BY <1>2, <3>1, <3>2 DEF SpendRetry
  <2> QED BY <2>1, <2>4 DEF RetriesReserved, MaxRetries
<1>3. CASE Granted' = Granted /\ retryCount' = retryCount /\ budget' = budget
  BY <1>3 DEF RetriesReserved, MaxRetries
<1>4. ASSUME NEW c \in Callers, Call(c) \/ CallerStep(c), ~Settle(c), ~SpendRetry(c)
      PROVE  RetriesReserved'
  <2>1. /\ retryCount' = retryCount /\ budget' = budget
        /\ pc[c] # "granted" /\ pc'[c] # "granted"
        /\ \A d \in Callers : d # c => pc'[d] = pc[d]
    BY <1>4 DEF Call, SearchItem, Validate, CollectItem, ReadStatus, CallerStep, EndSearch, Judge, StoreVerdict, Refine,
                EndRefine, Rejudge, Resettle, ReadItem, UpdateItemStatus, ChooseValidation,
                EmbedFails, MarkDone, ReadConsensus, At, TypeOK, item, locals
  <2> QED BY <2>1, <1>3 DEF Granted
<1>5. ASSUME NEW c \in Callers, NEW p \in Providers, ProviderStep(c, p) PROVE RetriesReserved'
  BY <1>5, <1>3 DEF ProviderStep, Answer, Lock, Store, Granted, item, locals
<1>6. CASE Over \/ UNCHANGED vars
  BY <1>6, <1>3 DEF Over, vars, item, locals, Granted
<1> QED BY <1>1, <1>2, <1>4, <1>5, <1>6 DEF Next

-------------------------------------------------------------------------------
(* The end of a search. *)

(* Whoever starts a search settles it, unless another call settles later.    *)
LEMMA OwnerStep == TypeOK /\ SearchHasOwner /\ [Next]_vars => SearchHasOwner'
<1> SUFFICES ASSUME TypeOK, SearchHasOwner, [Next]_vars PROVE SearchHasOwner'
  OBVIOUS
<1>1. ASSUME NEW c \in Callers, Call(c) \/ CallerStep(c) PROVE SearchHasOwner'
  <2>1. \/ pc'[c] \in Working
        \/ status' \notin {"searching", "searched"}
        \/ pc[c] \notin Working /\ status' = status
    BY <1>1 DEF Call, SearchItem, Validate, CollectItem, ReadStatus, CallerStep, EndSearch, Judge, StoreVerdict, Settle,
                SpendRetry, Refine, EndRefine, Rejudge, Resettle, ReadItem, UpdateItemStatus,
                ChooseValidation, EmbedFails, MarkDone, ReadConsensus, At, TypeOK, item, Working
  <2>2. \A d \in Callers : d # c => pc'[d] = pc[d]
    BY <1>1 DEF Call, SearchItem, Validate, CollectItem, ReadStatus, CallerStep, EndSearch, Judge, StoreVerdict, Settle,
                SpendRetry, Refine, EndRefine, Rejudge, Resettle, ReadItem, UpdateItemStatus,
                ChooseValidation, EmbedFails, MarkDone, ReadConsensus, At, TypeOK
  <2> QED BY <2>1, <2>2 DEF SearchHasOwner
<1>2. ASSUME NEW c \in Callers, NEW p \in Providers, ProviderStep(c, p) PROVE SearchHasOwner'
  BY <1>2 DEF ProviderStep, Answer, Lock, Store, item, SearchHasOwner
<1>3. CASE Over \/ UNCHANGED vars
  BY <1>3 DEF Over, vars, item, SearchHasOwner
<1> QED BY <1>1, <1>2, <1>3 DEF Next

-------------------------------------------------------------------------------
(* The verdict an exported row shows. *)

(* A field that has been judged once stays judged: what is stored is always  *)
(* a verdict.                                                                *)
LEMMA VerdictStep ==
  /\ TypeOK /\ VerdictComesFirst /\ VerdictsComeWithResults /\ [Next]_vars
  => VerdictComesFirst' /\ VerdictsComeWithResults'
<1> SUFFICES ASSUME TypeOK, VerdictComesFirst, VerdictsComeWithResults, [Next]_vars
             PROVE  VerdictComesFirst' /\ VerdictsComeWithResults'
  OBVIOUS
<1> DEFINE Shown == \/ status \in Settled
                    \/ \E c \in Callers : pc[c] \in {"stored", "restored", "embedding"}
           Exporting(c) == pc[c] = "exporting" /\ copy[c][1] \in Settled
<1> USE DEF VerdictComesFirst, VerdictsComeWithResults, Judged, Settled
<1>1. /\ Shown => Judged(consensus)
      /\ \A c \in Callers : Exporting(c) => Judged(consensus)
  OBVIOUS
<1>2. ASSUME NEW c \in Callers, Call(c) \/ CallerStep(c)
      PROVE  VerdictComesFirst' /\ VerdictsComeWithResults'
  <2> USE DEF TypeOK
  <2>1. /\ \A d \in Callers : d # c => /\ pc'[d] = pc[d] /\ verdict'[d] = verdict[d]
                                       /\ copy'[d] = copy[d]
    BY <1>2 DEF Call, SearchItem, Validate, CollectItem, ReadStatus, CallerStep, EndSearch,
                Judge, StoreVerdict, Settle, SpendRetry, Refine, EndRefine, Rejudge, Resettle,
                ReadItem, UpdateItemStatus, ChooseValidation, EmbedFails, MarkDone,
                ReadConsensus, At, item, locals
  <2>2. pc'[c] \in {"judged", "rejudged"} => Judged(verdict'[c])
    BY <1>2, VerdictType DEF Call, SearchItem, Validate, CollectItem, ReadStatus, CallerStep,
                EndSearch, Judge, StoreVerdict, Settle, SpendRetry, Refine, EndRefine, Rejudge,
                Resettle, ReadItem, UpdateItemStatus, ChooseValidation, EmbedFails, MarkDone,
                ReadConsensus, At
  <2>3. \/ consensus' = consensus /\ ~StoreVerdict(c)
        \/ StoreVerdict(c) /\ Judged(consensus')
    BY <1>2 DEF Call, SearchItem, Validate, CollectItem, ReadStatus, CallerStep, EndSearch,
                Judge, StoreVerdict, Settle, SpendRetry, Refine, EndRefine, Rejudge, Resettle,
                ReadItem, UpdateItemStatus, ChooseValidation, EmbedFails, MarkDone,
                ReadConsensus, At, item
  <2>4. CASE StoreVerdict(c) /\ Judged(consensus')
    BY ZenonT(60), <2>1, <2>2, <2>4
  <2>5. CASE consensus' = consensus /\ ~StoreVerdict(c)
    <3>1. status' \in Settled \/ pc'[c] \in {"stored", "restored", "embedding"} => Shown
      BY <1>2, <2>5 DEF Call, SearchItem, Validate, CollectItem, ReadStatus, CallerStep,
                EndSearch, Judge, Settle, SpendRetry, Refine, EndRefine, Rejudge, Resettle,
                ReadItem, UpdateItemStatus, ChooseValidation, EmbedFails, MarkDone,
                ReadConsensus, At, item
    <3>2. pc'[c] = "exporting" /\ copy'[c][1] \in Settled => Shown
      <4>1. CASE ReadStatus(c)
        <5>1. copy'[c][1] = status
          BY <4>1 DEF ReadStatus, Item
        <5> QED BY <5>1
      <4>2. CASE ~ReadStatus(c)
        BY <1>2, <4>2 DEF Call, SearchItem, Validate, CollectItem, CallerStep, EndSearch,
                Judge, StoreVerdict, Settle, SpendRetry, Refine, EndRefine, Rejudge, Resettle,
                ReadItem, UpdateItemStatus, ChooseValidation, EmbedFails, MarkDone,
                ReadConsensus, At
      <4> QED BY <4>1, <4>2
    <3>3. VerdictComesFirst'
      <4>1. ASSUME NEW d \in Callers PROVE pc'[d] \in {"judged", "rejudged"} => Judged(verdict'[d])
        BY <2>1, <2>2, <4>1
      <4>2. (\E d \in Callers : pc'[d] \in {"stored", "restored", "embedding"}) => Shown
        BY <2>1, <3>1
      <4>3. Shown' => Judged(consensus')
        BY <1>1, <2>5, <3>1, <4>2
      <4> QED BY <4>1, <4>3
    <3>4. ASSUME NEW d \in Callers, Exporting(d)' PROVE Judged(consensus')
      BY <1>1, <2>1, <2>5, <3>2, <3>4
    <3> QED BY <3>3, <3>4
  <2> QED BY <2>3, <2>4, <2>5
<1>3. CASE UNCHANGED <<item, pc, locals>>
  BY <1>3 DEF item, locals
<1>4. ASSUME NEW c \in Callers, NEW p \in Providers, ProviderStep(c, p)
      PROVE  VerdictComesFirst' /\ VerdictsComeWithResults'
  BY <1>4 DEF ProviderStep, Answer, Lock, Store, item, locals
<1>5. CASE Over \/ UNCHANGED vars
  BY <1>5, <1>3 DEF Over, vars
<1> QED BY <1>2, <1>4, <1>5 DEF Next

-------------------------------------------------------------------------------
(* The theorems. *)

LEMMA InitIsInductive == Init => Inductive
<1> SUFFICES ASSUME Init PROVE Inductive
  OBVIOUS
<1> USE ItemAssumption DEF Init
<1>1. NoVerdict \in [Fields -> Agreement]
  BY DEF NoVerdict, Agreement
<1>2. TypeOK
  <2>1. results \in [Providers -> Seq(Answers)] /\ status \in ItemStatus
    BY DEF ItemStatus
  <2>2. item \in Item
    BY <1>1, <2>1 DEF Item, item
  <2>3. <<>> \in Seq(Answers) /\ [f \in Fields |-> NoValue] \in Answers
    BY DEF Answers
  <2> QED BY <1>1, <2>1, <2>2, <2>3 DEF TypeOK, Points
<1>3. HolderIsInside /\ JoinedOutside /\ SearchHasOwner
  BY DEF HolderIsInside, JoinedOutside, SearchHasOwner
<1>5. VerdictComesFirst /\ VerdictsComeWithResults
  BY DEF VerdictComesFirst, VerdictsComeWithResults, Settled
<1>4. RetriesReserved
  <2>1. Granted = {} /\ Cardinality(Granted) = 0
    BY FS_EmptySet DEF Granted
  <2>2. Cardinality(Callers) \in Nat /\ Cardinality(Callers) # 0
    BY FS_CardinalityType, FS_EmptySet
  <2> QED BY <2>1, <2>2, BudgetPositive DEF RetriesReserved
<1> QED BY <1>2, <1>3, <1>4, <1>5 DEF Inductive

(* The invariant the other theorems rest on: whatever calls overlap on an    *)
(* item, a call's goroutines are alone inside its mutex and gone once it has *)
(* waited for them, every counted retry was reserved, an unsettled item has  *)
(* a call that will settle it, and a settled one has a verdict.              *)
THEOREM ItemInvariant == Spec => []Inductive
<1>1. Inductive /\ [Next]_vars => Inductive'
  BY TypeStep, HolderStep, JoinedStep, RetriesStep, OwnerStep, VerdictStep DEF Inductive
<1> QED BY InitIsInductive, <1>1, PTL DEF Spec

(* mu makes the append of a search's provider goroutines exclusive, and      *)
(* wg.Wait() keeps them out while their own call reads item.Results.         *)
THEOREM AppendIsExclusive == Spec => []ResultsExclusive
<1>1. Inductive => ResultsExclusive
  BY DEF Inductive, HolderIsInside, JoinedOutside, ResultsExclusive
<1> QED BY <1>1, ItemInvariant, PTL

(* The unlocked test and increment of RetryCount in ValidateItem overshoot   *)
(* the budget by less than one per concurrent call.                          *)
THEOREM RetriesAreBounded == Spec => []RetryBudget
<1>1. Inductive => RetryBudget
  <2> SUFFICES ASSUME Inductive PROVE RetryBudget
    OBVIOUS
  <2>1. Cardinality(Granted) \in Nat /\ Cardinality(Callers) \in Nat
    BY GrantedFinite DEF Granted
  <2> QED BY <2>1, BudgetPositive DEF Inductive, RetriesReserved, RetryBudget, TypeOK
<1> QED BY <1>1, ItemInvariant, PTL

(* When the calls on an item have all returned it has been given a verdict,  *)
(* in whatever order SearchItem and ValidateItem wrote its status.           *)
THEOREM SearchesAreSettled == Spec => []NoCallLeavesSearching
<1>1. Inductive => NoCallLeavesSearching
  BY DEF Inductive, SearchHasOwner, NoCallLeavesSearching, Idle, Working
<1> QED BY <1>1, ItemInvariant, PTL

(* An exported row that is shown as settled has a verdict for every field,   *)
(* whatever calls run between the reader's two unlocked reads.               *)
THEOREM ExportsShowVerdicts == Spec => []VerdictsComeWithResults
<1>1. Inductive => VerdictsComeWithResults
  BY DEF Inductive
<1> QED BY <1>1, ItemInvariant, PTL

-------------------------------------------------------------------------------
(* One call at a time. *)

(* A step of the only caller that is not one of its provider goroutines'.    *)
LEMMA OnlyCaller ==
  ASSUME NEW c \in Callers, Callers = {c}, [Next]_vars
  PROVE  \/ Call(c) \/ CallerStep(c)
         \/ \E p \in Providers : ProviderStep(c, p)
         \/ UNCHANGED vars
BY DEF Next, Over

LEMMA VerdictCurrentStep ==
  ASSUME NEW c \in Callers, Callers = {c}, TypeOK, HolderIsInside, JoinedOutside,
         VerdictCurrent(c), [Next]_vars
  PROVE  VerdictCurrent(c)'
<1> USE DEF VerdictCurrent, Quiet
<1>1. CASE Call(c)
  BY <1>1 DEF Call, SearchItem, Validate, CollectItem, ReadStatus, At, item, TypeOK
<1>2. CASE CallerStep(c)
  <2> USE DEF TypeOK, At
  <2>1. CASE EndSearch(c) \/ SpendRetry(c) \/ Refine(c) \/ EndRefine(c)
    BY <2>1 DEF EndSearch, SpendRetry, Refine, EndRefine
  <2>2. CASE Judge(c) \/ Rejudge(c)
    BY <2>2 DEF Judge, Rejudge, item
  <2>3. CASE StoreVerdict(c)
    BY <2>3 DEF StoreVerdict, locals
  <2>4. CASE Settle(c)
    BY <2>4 DEF Settle
  <2>5. CASE Resettle(c)
    BY <2>5 DEF Resettle, locals
  <2>6. CASE ReadItem(c) \/ UpdateItemStatus(c) \/ ChooseValidation(c) \/ EmbedFails(c)
             \/ ReadConsensus(c)
    BY <2>6 DEF ReadItem, UpdateItemStatus, ChooseValidation, EmbedFails, ReadConsensus,
                item, locals
  <2>7. CASE MarkDone(c)
    BY <2>7 DEF MarkDone, locals
  <2> QED BY <1>2, <2>1, <2>2, <2>3, <2>4, <2>5, <2>6, <2>7 DEF CallerStep
<1>3. ASSUME NEW p \in Providers, ProviderStep(c, p) PROVE VerdictCurrent(c)'
  <2>1. /\ pc' = pc /\ status' = status /\ consensus' = consensus /\ verdict' = verdict
        /\ pc[c] \in {"searching", "refining"}
    BY <1>3 DEF ProviderStep, Answer, Lock, Store, JoinedOutside, item, locals
  <2> QED BY <2>1
<1>4. CASE UNCHANGED vars
  BY <1>4 DEF vars, item, locals
<1> QED BY <1>1, <1>2, <1>3, <1>4, OnlyCaller

(* A provider's results only ever get longer: every append is to the        *)
(* present slice.                                                           *)
Grows == \A p \in Providers : FirstOf(results[p], results'[p])

LEMMA FirstOfItself == ASSUME NEW S, NEW s \in Seq(S) PROVE FirstOf(s, s)
<1>1. Len(s) \in Nat /\ SubSeq(s, 1, Len(s)) = s
  OBVIOUS
<1> QED BY <1>1 DEF FirstOf

LEMMA FirstOfAppend ==
  ASSUME NEW S, NEW s \in Seq(S), NEW t \in Seq(S), NEW e \in S, FirstOf(s, t)
  PROVE  FirstOf(s, Append(t, e))
<1>1. Len(s) \in Nat /\ Len(t) \in Nat /\ Len(s) <= Len(t) /\ Len(Append(t, e)) = Len(t) + 1
  BY DEF FirstOf
<1>2. SubSeq(Append(t, e), 1, Len(s)) = SubSeq(t, 1, Len(s))
  BY <1>1
<1> QED BY <1>1, <1>2 DEF FirstOf

LEMMA ResultsGrow ==
  ASSUME NEW c \in Callers, Callers = {c}, TypeOK, TailCurrent(c), [Next]_vars
  PROVE  \/ results' = results
         \/ \E p \in Providers : \E e \in Answers :
              results' = [results EXCEPT ![p] = Append(results[p], e)]
<1>1. CASE results' # results
  <2>1. PICK p \in Providers : Store(c, p)
    BY <1>1, OnlyCaller DEF Call, SearchItem, Validate, CollectItem, ReadStatus, CallerStep,
                EndSearch, Judge, StoreVerdict, Settle, SpendRetry, Refine, EndRefine, Rejudge,
                Resettle, ReadItem, UpdateItemStatus, ChooseValidation, EmbedFails, MarkDone,
                ReadConsensus, ProviderStep, Answer, Lock, item, vars
  <2>2. tail[c] = results[p] /\ answer[c][p] \in Answers
    BY <2>1 DEF Store, TailCurrent, TypeOK
  <2> QED BY <2>1, <2>2 DEF Store
<1> QED BY <1>1

LEMMA FirstStaysFirst ==
  ASSUME NEW c \in Callers, Callers = {c}, TypeOK, TailCurrent(c), [Next]_vars,
         NEW p \in Providers, NEW s \in Seq(Answers), FirstOf(s, results[p])
  PROVE  FirstOf(s, results'[p])
<1>1. CASE results' = results
  BY <1>1
<1>2. ASSUME NEW q \in Providers, NEW e \in Answers,
             results' = [results EXCEPT ![q] = Append(results[q], e)]
      PROVE  FirstOf(s, results'[p])
  <2>1. results[p] \in Seq(Answers)
    BY DEF TypeOK
  <2>2. FirstOf(s, Append(results[p], e))
    BY <2>1, FirstOfAppend
  <2>3. results'[p] = results[p] \/ results'[p] = Append(results[p], e)
    BY <1>2 DEF TypeOK
  <2> QED BY <2>2, <2>3
<1> QED BY <1>1, <1>2, ResultsGrow

(* A row that was true of the item stays so while the item goes on; the one  *)
(* UpdateItemStatus writes has just been read.                               *)
LEMMA RowBehindStep ==
  ASSUME NEW c \in Callers, Callers = {c}, TypeOK, JoinedOutside, VerdictCurrent(c),
         TailCurrent(c), RowBehind(c), [Next]_vars
  PROVE  RowBehind(c)'
<1>1. itemRow \in Item /\ \A p \in Providers : itemRow[2][p] \in Seq(Answers)
  <2>1. itemRow \in Item
    BY DEF TypeOK
  <2> QED BY <2>1 DEF Item
<1>2. \A p \in Providers : FirstOf(itemRow[2][p], results'[p])
  BY <1>1, FirstStaysFirst DEF RowBehind, RowIsEarlierVerdict, EarlierVerdict
<1>3. CASE itemRow' = itemRow
  <2>1. RowIsEarlierVerdict'
    BY <1>2, <1>3 DEF RowBehind, RowIsEarlierVerdict, EarlierVerdict
  <2>2. CASE Call(c)
    <3>1. pc'[c] # "saving"
      BY <2>2 DEF Call, SearchItem, Validate, CollectItem, ReadStatus, At, TypeOK
    <3> QED BY <2>1, <3>1 DEF RowBehind
  <2>3. CASE ReadItem(c)
    <3>1. copy'[c] = item /\ item' = item
      BY <2>3 DEF ReadItem, TypeOK, item
    <3> QED BY <2>1, <3>1 DEF RowBehind
  <2>4. CASE CallerStep(c) /\ ~ReadItem(c)
    <3>1. pc'[c] # "saving"
      BY <2>4 DEF CallerStep, EndSearch, Judge, StoreVerdict, Settle, SpendRetry, Refine,
                  EndRefine, Rejudge, Resettle, UpdateItemStatus, ChooseValidation, EmbedFails,
                  MarkDone, ReadConsensus, At, TypeOK
    <3> QED BY <2>1, <3>1 DEF RowBehind
  <2>5. ASSUME NEW p \in Providers, ProviderStep(c, p) PROVE RowBehind(c)'
    <3>1. pc' = pc /\ pc[c] # "saving"
      BY <2>5 DEF ProviderStep, Answer, Lock, Store, JoinedOutside
    <3> QED BY <2>1, <3>1 DEF RowBehind
  <2>6. CASE UNCHANGED vars
    <3>1. pc' = pc /\ copy' = copy /\ item' = item
      BY <2>6 DEF vars, locals, item
    <3> QED BY <2>1, <3>1 DEF RowBehind
  <2> QED BY <2>2, <2>3, <2>4, <2>5, <2>6, OnlyCaller
<1>4. CASE itemRow' # itemRow
  <2>1. UpdateItemStatus(c)
    BY <1>4, OnlyCaller DEF Call, SearchItem, Validate, CollectItem, ReadStatus, CallerStep,
                EndSearch, Judge, StoreVerdict, Settle, SpendRetry, Refine, EndRefine, Rejudge,
                Resettle, ReadItem, ChooseValidation, EmbedFails, MarkDone, ReadConsensus,
                ProviderStep, Answer, Lock, Store, vars
  <2>2. pc[c] = "saving" /\ pc'[c] = "idle" /\ item' = item /\ itemRow' = copy[c]
    BY <1>4, <2>1 DEF UpdateItemStatus, At, TypeOK
  <2>3. itemRow' = <<status, results, consensus, retryCount>>
    BY <2>2 DEF RowBehind, item
  <2>4. /\ itemRow'[1] = status /\ itemRow'[2] = results /\ itemRow'[3] = consensus
        /\ results' = results
    BY <2>2, <2>3 DEF item
  <2>5. status # "pending" => /\ consensus = Verdict(results)
                              /\ status \in {"validated", "done"} <=> Passed(consensus)
    BY <2>2 DEF VerdictCurrent, Quiet
  <2>6. \A p \in Providers : FirstOf(results[p], results[p])
    BY FirstOfItself DEF TypeOK
  <2>7. RowIsEarlierVerdict'
    BY <2>4, <2>5, <2>6 DEF RowIsEarlierVerdict, EarlierVerdict
  <2> QED BY <2>2, <2>7 DEF RowBehind
<1> QED BY <1>3, <1>4

LEMMA TailCurrentStep ==
  ASSUME NEW c \in Callers, Callers = {c}, TypeOK, HolderIsInside, JoinedOutside,
         TailCurrent(c), [Next]_vars
  PROVE  TailCurrent(c)'
<1> USE DEF TailCurrent, TypeOK
<1>1. CASE Call(c) \/ CallerStep(c)
  <2>1. /\ results' = results /\ tail' = tail
        /\ FanOut(c) \/ search' = search
    BY <1>1 DEF Call, SearchItem, Validate, CollectItem, ReadStatus, CallerStep, EndSearch,
                Judge, StoreVerdict, Settle, SpendRetry, Refine, EndRefine, Rejudge, Resettle,
                ReadItem, UpdateItemStatus, ChooseValidation, EmbedFails, MarkDone,
                ReadConsensus, item, fanOut
  <2> QED BY <2>1 DEF FanOut
<1>2. ASSUME NEW p \in Providers, ProviderStep(c, p) PROVE TailCurrent(c)'
  <2>1. CASE Answer(c, p)
    BY <2>1 DEF Answer, item
  <2>2. CASE Lock(c, p)
    <3>1. \A q \in Providers : search[c][q] # "held"
      BY <2>2, ItemAssumption DEF Lock, NoOne, HolderIsInside
    <3> QED BY <2>2, <3>1 DEF Lock, item
  <2>3. CASE Store(c, p)
    <3>1. \A q \in Providers : q # p => search[c][q] # "held"
      BY <2>3 DEF Store, HolderIsInside
    <3> QED BY <2>3, <3>1 DEF Store
  <2> QED BY <1>2, <2>1, <2>2, <2>3 DEF ProviderStep
<1>3. CASE UNCHANGED vars
  BY <1>3 DEF vars, item, fanOut
<1> QED BY <1>1, <1>2, <1>3, OnlyCaller

(* What holds of an item when one caller uses it: the verdict and the slice  *)
(* a goroutine appends to are never out of date, and the row, whose writes   *)
(* may fail, is what the item was at the end of an earlier call.             *)
THEOREM OneCallAtATime ==
  ASSUME NEW c \in Callers, Callers = {c}
  PROVE  Spec => [](Inductive /\ Sequential(c))
<1>1. Init => Sequential(c)
  <2> SUFFICES ASSUME Init PROVE Sequential(c)
    OBVIOUS
  <2>1. VerdictCurrent(c) /\ TailCurrent(c)
    BY DEF Init, VerdictCurrent, TailCurrent, Quiet
  <2>2. itemRow = <<status, results, consensus, retryCount>> /\ status = "pending"
    BY DEF Init, item
  <2>3. \A p \in Providers : FirstOf(results[p], results[p])
    BY InitIsInductive, FirstOfItself DEF Inductive, TypeOK
  <2>4. RowIsEarlierVerdict
    BY <2>2, <2>3 DEF RowIsEarlierVerdict, EarlierVerdict
  <2> QED BY <2>1, <2>4 DEF Init, Sequential, RowBehind
<1>2. Inductive /\ Sequential(c) /\ [Next]_vars => Sequential(c)'
  BY VerdictCurrentStep, RowBehindStep, TailCurrentStep DEF Inductive, Sequential
<1> QED BY <1>1, <1>2, ItemInvariant, PTL DEF Spec

(* With one call at a time an idle item shows the verdict on all the         *)
(* evidence it holds, after a retry in particular (ValidateItem).            *)
THEOREM VerdictsAreCurrent ==
  ASSUME NEW c \in Callers, Callers = {c}
  PROVE  Spec => []VerdictFollowsEvidence
<1>1. Inductive /\ Sequential(c) => VerdictFollowsEvidence
  BY DEF Sequential, VerdictCurrent, Quiet, VerdictFollowsEvidence, Idle
<1> QED BY <1>1, OneCallAtATime, PTL

(* With one call at a time, and whichever of the tools' writes fail, the row *)
(* shows a verdict, and its status, on the results it holds, which are the   *)
(* first ones of the item's (UpdateItemStatus at the end of every tool).     *)
THEOREM RowsAreEarlierVerdicts ==
  ASSUME NEW c \in Callers, Callers = {c}
  PROVE  Spec => []RowIsEarlierVerdict
<1>1. Inductive /\ Sequential(c) => RowIsEarlierVerdict
  BY DEF Sequential, RowBehind
<1> QED BY <1>1, OneCallAtATime, PTL

(* With one call at a time no search and no retry drops a result: every      *)
(* append is to the present slice.                                           *)
THEOREM NoResultIsDropped ==
  ASSUME NEW c \in Callers, Callers = {c}
  PROVE  Spec => ResultsOnlyGrow
<1>1. Inductive /\ Sequential(c) /\ [Next]_vars => [Grows]_results
  <2> SUFFICES ASSUME Inductive, Sequential(c), [Next]_vars PROVE Grows
    OBVIOUS
  <2> SUFFICES ASSUME NEW p \in Providers PROVE FirstOf(results[p], results'[p])
    BY DEF Grows
  <2>1. results[p] \in Seq(Answers) /\ FirstOf(results[p], results[p])
    BY FirstOfItself DEF Inductive, TypeOK
  <2> QED BY <2>1, FirstStaysFirst DEF Inductive, Sequential
<1> QED BY <1>1, OneCallAtATime, PTL DEF Spec, ResultsOnlyGrow, Grows
===============================================================================
