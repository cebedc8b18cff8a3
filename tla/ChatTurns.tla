---------------------------- MODULE ChatTurns ----------------------------
(***************************************************************************)
(* The turns of one conversation of services/ai, and the counter that      *)
(* admits LLM requests into a process.                                     *)
(*                                                                         *)
(* A turn loads the history, through a cache in Redis, lets the agents     *)
(* answer, and stores question and answer.  A plain turn does so inside    *)
(* the handler; the handler of a streamed turn only returns the response,  *)
(* whose generator then runs.  /completions and /v1/analysis/enrich take   *)
(* part in the counter alone.  Handlers interleave where they await.       *)
(***************************************************************************)
EXTENDS Naturals, FiniteSets

CONSTANTS
    Turns,        \* identities of requests: bounds how many are made
    NoTurn,       \* none of them
    MaxActive,    \* MAX_CONCURRENT of the middleware
    MaxRequests,  \* MAX_CONCURRENT_REQUESTS of acquire_llm_slot
    MaxFaults     \* bound on the calls to Redis that fail

ASSUME TurnsAssumption ==
    /\ IsFiniteSet(Turns)
    /\ NoTurn \notin Turns
    /\ MaxActive \in Nat /\ MaxRequests \in Nat
    /\ MaxFaults \in Nat

VARIABLES
    active,   \* _active: requests the middleware has let in
    counter,  \* _request_counter: those of them that took a slot
    at,       \* per request, where it is
    kind,     \* per request, what it is
    seen,     \* per turn, the history it has read from the database
    made,     \* the row of the conversation is committed
    maker,    \* the turn that has inserted that row and not yet committed
    stored,   \* the turns whose messages are committed
    cached,   \* the history in Redis, or Cold
    met,      \* history: the turns that overlapped with another one
    excused,  \* history: an overlap or a fault may have made `cached` stale
    faults    \* how many calls to Redis failed

gateVars         == <<active, counter>>
requestVars      == <<gateVars, at, kind>>
conversationVars == <<made, maker, stored>>
cacheVars        == <<cached, met, excused>>
vars == <<requestVars, seen, conversationVars, cacheVars, faults>>

-----------------------------------------------------------------------------
Kinds == {"plain", "stream", "single"}

Cold == [cold |-> TRUE]
Warm(history) == [cold |-> FALSE, turns |-> history]

(* Mistakes that the definitions below avoid.                                *)
StaysCounted(n)    == n
OneTooMany(n, max) == n > max + 1
KeepsHistory(c)    == c

(* Both gates count a request first, and take it back when they refuse it;   *)
(* neither counter goes below zero.                                          *)
Refuses(n, max) == n > max
Released(n)     == IF n = 0 THEN 0 ELSE n - 1
AfterRefusal(n) == n - 1

(* _invalidate_history_cache deletes the key.                                *)
Forgotten(c) == Cold

Running(t) == at[t] \notin {"idle", "refused", "ended"}
InConversation(t) == Running(t) /\ kind[t] # "single"
Others(t) == {s \in Turns \ {t} : InConversation(s)}

Goto(t, label) == at' = [at EXCEPT ![t] = label]

(* A request that ends releases its slot, though a streamed one gave it back *)
(* when its handler returned, and left the middleware.  What it has not      *)
(* committed is rolled back.                                                 *)
End(t) ==
    /\ Goto(t, "ended")
    /\ counter' = Released(counter)
    /\ active' = IF kind[t] = "stream" THEN active ELSE Released(active)
    /\ seen' = [seen EXCEPT ![t] = {}]
    /\ maker' = IF maker = t THEN NoTurn ELSE maker
    /\ UNCHANGED kind

(* A call to Redis that fails is logged, and the turn goes on without it.    *)
Fault == faults < MaxFaults /\ faults' = faults + 1

-----------------------------------------------------------------------------
Init ==
    /\ active = 0
    /\ counter = 0
    /\ at = [t \in Turns |-> "idle"]
    /\ kind = [t \in Turns |-> "plain"]
    /\ seen = [t \in Turns |-> {}]
    /\ made = FALSE
    /\ maker = NoTurn
    /\ stored = {}
    /\ cached = Cold
    /\ met = {}
    /\ excused = FALSE
    /\ faults = 0

(* The middleware lets the request in or answers 503.                        *)
TurnAway(t, k) ==
    /\ at[t] = "idle"
    /\ Refuses(active + 1, MaxActive)
    /\ kind' = [kind EXCEPT ![t] = k]
    /\ Goto(t, "refused")
    /\ UNCHANGED <<gateVars, seen, conversationVars, cacheVars, faults>>

(* acquire_llm_slot answers 503.                                             *)
Refuse(t, k) ==
    /\ at[t] = "idle"
    /\ ~Refuses(active + 1, MaxActive)
    /\ Refuses(counter + 1, MaxRequests)
    /\ kind' = [kind EXCEPT ![t] = k]
    /\ counter' = AfterRefusal(counter + 1)
    /\ Goto(t, "refused")
    /\ UNCHANGED <<active, seen, conversationVars, cacheVars, faults>>

(* The handler up to its first await.  That of a streamed turn returns, and  *)
(* so releases its slot and leaves the middleware before its work begins.    *)
Begin(t, k) ==
    /\ at[t] = "idle"
    /\ ~Refuses(active + 1, MaxActive)
    /\ ~Refuses(counter + 1, MaxRequests)
    /\ kind' = [kind EXCEPT ![t] = k]
    /\ IF k = "stream"
         THEN counter' = Released(counter + 1) /\ active' = Released(active + 1)
         ELSE counter' = counter + 1 /\ active' = active + 1
    /\ IF k = "single"
         THEN Goto(t, "work") /\ UNCHANGED met
         ELSE /\ Goto(t, "load")
              /\ met' = IF Others(t) = {} THEN met ELSE met \cup {t} \cup Others(t)
    /\ UNCHANGED <<seen, conversationVars, cached, excused, faults>>

(* _load_history: the cache, else the database, whose answer is cached.      *)
LoadCached(t) ==
    /\ at[t] = "load"
    /\ \/ Goto(t, IF cached = Cold THEN "fetch" ELSE "answer") /\ UNCHANGED faults
       \/ Goto(t, "fetch") /\ Fault
    /\ UNCHANGED <<gateVars, kind, seen, conversationVars, cacheVars>>

FetchHistory(t) ==
    /\ at[t] = "fetch"
    /\ seen' = [seen EXCEPT ![t] = stored]
    /\ Goto(t, "fill")
    /\ UNCHANGED <<gateVars, kind, conversationVars, cacheVars, faults>>

FillCache(t) ==
    /\ at[t] = "fill"
    /\ \/ /\ cached' = Warm(seen[t])
          /\ excused' = (t \in met)
          /\ UNCHANGED faults
       \/ Fault /\ UNCHANGED <<cached, excused>>
    /\ Goto(t, "answer")
    /\ seen' = [seen EXCEPT ![t] = {}]
    /\ UNCHANGED <<gateVars, kind, conversationVars, met>>

(* The agents have answered.  ensure_conversation looks for the row, and     *)
(* inserts it if it was not there.                                           *)
LookForConversation(t) ==
    /\ at[t] = "answer"
    /\ Goto(t, IF made THEN "save" ELSE "insert")
    /\ UNCHANGED <<gateVars, kind, seen, conversationVars, cacheVars, faults>>

(* The insert waits for that of another turn, and fails if that commits.     *)
InsertConversation(t) ==
    /\ at[t] = "insert"
    /\ maker = NoTurn
    /\ IF made
         THEN End(t)
         ELSE maker' = t /\ Goto(t, "save") /\ UNCHANGED <<gateVars, kind, seen>>
    /\ UNCHANGED <<made, stored, cacheVars, faults>>

(* The messages are written and the conversation's row is updated, which     *)
(* locks it to the commit.  A plain turn invalidates the cache before its    *)
(* commit, a streamed one after it.                                          *)
Updating(t) == at[t] = "commit" \/ (at[t] = "forget" /\ kind[t] = "plain")

SaveMessages(t) ==
    /\ at[t] = "save"
    /\ \A s \in Turns : ~Updating(s)
    /\ Goto(t, IF kind[t] = "plain" THEN "forget" ELSE "commit")
    /\ UNCHANGED <<gateVars, kind, seen, conversationVars, cacheVars, faults>>

ForgetHistory(t) ==
    /\ at[t] = "forget"
    /\ \/ /\ cached' = Forgotten(cached)
          /\ excused' = FALSE
          /\ UNCHANGED faults
       \/ Fault /\ excused' = TRUE /\ UNCHANGED cached
    /\ IF kind[t] = "plain"
         THEN Goto(t, "commit") /\ UNCHANGED <<gateVars, kind, seen, maker>>
         ELSE End(t)
    /\ UNCHANGED <<made, stored, met>>

Commit(t) ==
    /\ at[t] = "commit"
    /\ made' = TRUE
    /\ stored' = stored \cup {t}
    /\ IF kind[t] = "plain"
         THEN End(t)
         ELSE /\ Goto(t, "forget")
              /\ maker' = IF maker = t THEN NoTurn ELSE maker
              /\ UNCHANGED <<gateVars, kind, seen>>
    /\ UNCHANGED <<cacheVars, faults>>

(* A completion or an enrichment is done.                                    *)
Finish(t) ==
    /\ at[t] = "work"
    /\ End(t)
    /\ UNCHANGED <<made, stored, cacheVars, faults>>

(* The 90 seconds of a plain turn pass, the reader of a streamed one leaves, *)
(* or the work raises: the task is cancelled at whatever it awaits.  One     *)
(* cancelled between its commit and its invalidation leaves the cache as is. *)
GiveUp(t) ==
    /\ Running(t)
    /\ End(t)
    /\ excused' = (excused \/ (at[t] = "forget" /\ kind[t] = "stream"))
    /\ UNCHANGED <<made, stored, cached, met, faults>>

(* The reader leaves before the generator has started: there is no `finally` *)
(* to run, and the slot was released by the handler.                         *)
LeaveUnread(t) ==
    /\ at[t] = "load" /\ kind[t] = "stream"
    /\ Goto(t, "ended")
    /\ UNCHANGED <<gateVars, kind, seen, conversationVars, cacheVars, faults>>

(* The five minutes of the cached history pass.                              *)
ExpireHistory ==
    /\ cached # Cold
    /\ cached' = Cold
    /\ excused' = FALSE
    /\ UNCHANGED <<requestVars, seen, conversationVars, met, faults>>

Turn(t) ==
    \/ LoadCached(t) \/ FetchHistory(t) \/ FillCache(t)
    \/ LookForConversation(t) \/ InsertConversation(t)
    \/ SaveMessages(t) \/ ForgetHistory(t) \/ Commit(t)
    \/ Finish(t) \/ GiveUp(t) \/ LeaveUnread(t)

Next ==
    \/ \E t \in Turns, k \in Kinds : TurnAway(t, k) \/ Refuse(t, k) \/ Begin(t, k)
    \/ \E t \in Turns : Turn(t)
    \/ ExpireHistory

Spec == Init /\ [][Next]_vars

-----------------------------------------------------------------------------
Places == {"idle", "refused", "ended", "work", "load", "fetch", "fill",
           "answer", "insert", "save", "forget", "commit"}

(* Every variable has its type; the counters stay within limits.             *)
TypeOK ==
    /\ active \in 0..MaxActive /\ counter \in 0..MaxRequests
    /\ at \in [Turns -> Places]
    /\ kind \in [Turns -> Kinds]
    /\ seen \in [Turns -> SUBSET Turns]
    /\ made \in BOOLEAN
    /\ maker \in Turns \cup {NoTurn}
    /\ stored \subseteq Turns
    /\ cached = Cold \/ cached \in [cold : {FALSE}, turns : SUBSET Turns]
    /\ met \subseteq Turns
    /\ excused \in BOOLEAN
    /\ faults \in 0..MaxFaults

(* Neither gate ever counts a request that is over: whatever refusals,       *)
(* timeouts, disconnections and double releases there were, a 503 means that *)
(* as many handlers as the limit are at work, and an idle process admits     *)
(* all.                                                                      *)
NeverOverstated ==
    LET working == Cardinality({t \in Turns : Running(t) /\ kind[t] # "stream"})
    IN  counter <= working /\ active <= working

(* Between turns, what Redis holds of the history is what the database has:  *)
(* the next turn sees all the earlier ones.  Excused are a history cached by *)
(* a turn that overlapped with another, and one whose invalidation was lost  *)
(* to Redis or to the reader's leaving.                                      *)
HistoryIsWhole ==
    (\A t \in Turns : ~InConversation(t)) /\ ~excused
        => cached \in {Cold, Warm(stored)}
=============================================================================
