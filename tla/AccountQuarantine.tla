------------------------- MODULE AccountQuarantine -------------------------
(***************************************************************************)
(* The maintenance job: it takes accounts out of dispatch, remembers them  *)
(* in PostgreSQL, probes them and puts them back.  Every account mutation  *)
(* is two HTTP writes and a read-back against an upstream that operators   *)
(* and the upstream server itself change at the same time; the job may die *)
(* between any two steps.                                                  *)
(*                                                                         *)
(* What survives a restart are the three tables of the registry (intents,  *)
(* markers, restore intents) and the upstream; the rest is the memory of   *)
(* the one job that holds the account-control lease.                       *)
(***************************************************************************)
EXTENDS Naturals, FiniteSets

CONSTANTS
  Accounts,    \* upstream accounts
  NoAccount,   \* "no account is being worked on"
  BatchSize,   \* rows a job takes from each table (5 in the code)
  Capacity,    \* rows the registry may hold (10,000 in the code)
  MaxLate      \* bound: upstream writes in flight after their caller is gone

ASSUME AccountsAssumption == NoAccount \notin Accounts /\ IsFiniteSet(Accounts)
ASSUME BoundsAssumption ==
  /\ BatchSize \in Nat \ {0}
  /\ Capacity \in Nat
  /\ MaxLate \in Nat

Statuses == {"active", "error", "inactive"}
Owners == {"human", "service", "restored"}
Writes == {"putInactive", "postFalse", "recover", "putActive", "postTrue"}
Disabling == {"dput", "dpost", "dverify", "dreadback"}
Restoring == {"rclear", "rput", "rpost", "rverify", "rreadback"}
Commits == {"clear", "dok", "dfailed", "complete", "cancel", "rbegin"}
Steps == {"idle", "intents", "restores", "rtest", "select", "sweep", "probes",
          "ptest", "pass", "miss"} \cup Disabling \cup Restoring \cup Commits

VARIABLES
  status, sched,  \* upstream: the two fields the service writes
  owner,          \* history: who last changed whether the account is in dispatch: a
                  \* "human" did, the "service" took it out, it "restored" the account
  late,           \* upstream writes that may still land, by account
  tainted,        \* history: accounts on which a late write has landed
  intents,        \* rows of account_quarantine_intents
  previous,       \* previous_status and previous_schedulable of an intent
  markers,        \* rows of account_quarantines
  slow,           \* rows (intents and markers) whose reason is SLOW_FIRST_TOKEN
  streak,         \* recovery_success_streak of a marker
  restores,       \* rows of account_quarantine_restore_intents
  passes,         \* history: passing tests of a marker since the last
                  \* recorded miss, counted up to 2
  pc, mode, cur,  \* the job: its step, the phase it works for, its account
  todo, chosen,   \* the job: accounts left in this phase, markers to probe
  fresh,          \* the job: the account states the sweep read
  adjusted,       \* the job: accounts it reports as quarantined
  failure         \* why the last job ended: the error code it stored

upstream == <<status, sched, owner, late, tainted>>
registry == <<intents, previous, markers, slow, streak, restores, passes>>
job == <<pc, mode, cur, todo, chosen, fresh, adjusted, failure>>
vars == <<upstream, registry, job>>

State(a) == <<status[a], sched[a]>>
NoState == <<"inactive", FALSE>>  \* no intent, or not read: never an eligible state
Unread == [a \in Accounts |-> NoState]
Dispatched(a) == State(a) = <<"active", TRUE>>
Off(a) == State(a) = <<"inactive", FALSE>>
HumanPause(a) == State(a) = <<"active", FALSE>>
Registered == intents \cup markers

\* LIMIT BatchSize; the ORDER BY that decides which rows are first is left open.
IsBatch(B, S) ==
  /\ B \subseteq S
  /\ Cardinality(B) <= BatchSize
  /\ B = S \/ Cardinality(B) = BatchSize

UpstreamOK ==
  /\ status \in [Accounts -> Statuses] /\ sched \in [Accounts -> BOOLEAN]
  /\ owner \in [Accounts -> Owners]
  /\ late \in [Accounts -> SUBSET Writes] /\ tainted \subseteq Accounts

RegistryOK ==
  /\ intents \subseteq Accounts /\ markers \subseteq Accounts
  /\ previous \in [Accounts -> Statuses \X BOOLEAN]
  /\ slow \subseteq Accounts /\ restores \subseteq Accounts
  /\ streak \in [Accounts -> 0..1] /\ passes \in [Accounts -> 0..2]

JobOK ==
  /\ pc \in Steps /\ mode \in {"none", "reconcile", "sweep", "probe"}
  /\ cur \in Accounts \cup {NoAccount}
  /\ fresh \in [Accounts -> Statuses \X BOOLEAN]
  /\ todo \subseteq Accounts /\ chosen \subseteq Accounts /\ adjusted \subseteq Accounts
  /\ failure \in {"none", "aborted", "capacity", "inconsistent"}

TypeOK == UpstreamOK /\ RegistryOK /\ JobOK

Init ==
  /\ status = [a \in Accounts |-> "active"] /\ sched = [a \in Accounts |-> TRUE]
  /\ owner = [a \in Accounts |-> "human"]
  /\ late = [a \in Accounts |-> {}] /\ tainted = {}
  /\ intents = {} /\ markers = {} /\ slow = {} /\ restores = {}
  /\ previous = Unread
  /\ streak = [a \in Accounts |-> 0] /\ passes = [a \in Accounts |-> 0]
  /\ pc = "idle" /\ mode = "none" /\ cur = NoAccount
  /\ todo = {} /\ chosen = {} /\ fresh = Unread /\ adjusted = {} /\ failure = "none"

-----------------------------------------------------------------------------
(* Moves of the job's control: to a step, on an account, for a phase.      *)

Goto(step) == pc' = step /\ UNCHANGED <<mode, cur, todo, chosen, fresh, adjusted, failure>>

Work(step, phase, a) ==
  /\ pc' = step /\ mode' = phase /\ cur' = a /\ todo' = todo \ {a}
  /\ UNCHANGED <<chosen, fresh, adjusted, failure>>

Skip(a) == todo' = todo \ {a} /\ UNCHANGED <<pc, mode, cur, chosen, fresh, adjusted, failure>>

\* The account is done with: on to the next one of the phase.
Leave(step) ==
  /\ pc' = step /\ mode' = "none" /\ cur' = NoAccount
  /\ UNCHANGED <<todo, chosen, fresh, adjusted, failure>>

End(code) ==
  /\ pc' = "idle" /\ mode' = "none" /\ cur' = NoAccount
  /\ todo' = {} /\ chosen' = {} /\ fresh' = Unread /\ adjusted' = {} /\ failure' = code

StartJob ==
  /\ pc = "idle"
  /\ \E B \in SUBSET intents : IsBatch(B, intents) /\ todo' = B
  /\ pc' = "intents" /\ failure' = "none"
  /\ UNCHANGED <<upstream, registry, mode, cur, chosen, fresh, adjusted>>

-----------------------------------------------------------------------------
(* disable_account: PUT status, POST schedulable, GET; any error is         *)
(* followed by one more GET whose answer decides.                           *)

SetStatus(a, s) == status' = [status EXCEPT ![a] = s]
SetSched(a, b) == sched' = [sched EXCEPT ![a] = b]

\* Whoever changes a field last owns the account's absence from dispatch, or its return;
\* an account the upstream has marked with an error stays the upstream's.
PutInactive(a) ==
  /\ SetStatus(a, "inactive") /\ UNCHANGED sched
  /\ owner' = [owner EXCEPT ![a] = IF status[a] = "inactive" THEN @ ELSE "service"]

PostFalse(a) ==
  /\ SetSched(a, FALSE) /\ UNCHANGED status
  /\ owner' = [owner EXCEPT ![a] = IF sched[a] /\ status[a] # "error" THEN "service" ELSE @]

PutActive(a) ==
  /\ SetStatus(a, "active")
  /\ owner' = [owner EXCEPT ![a] = IF sched[a] /\ status[a] # "active" THEN "restored" ELSE @]
  /\ UNCHANGED sched

PostTrue(a) ==
  /\ SetSched(a, TRUE)
  /\ owner' = [owner EXCEPT ![a] = IF status[a] = "active" /\ ~sched[a] THEN "restored" ELSE @]
  /\ UNCHANGED status

\* recover-state clears the error the upstream server has marked; an installation
\* without the endpoint does nothing.
Recover(a) ==
  /\ status[a] = "error" /\ SetStatus(a, "active")
  /\ owner' = [owner EXCEPT ![a] = IF sched[a] THEN "restored" ELSE @]
  /\ UNCHANGED sched

Apply(w, a) ==
  \/ w = "putInactive" /\ PutInactive(a)
  \/ w = "postFalse" /\ PostFalse(a)
  \/ w = "recover" /\ Recover(a)
  \/ w = "putActive" /\ PutActive(a)
  \/ w = "postTrue" /\ PostTrue(a)

LateCount == Cardinality({p \in Accounts \X Writes : p[2] \in late[p[1]]})

\* A write that errors is lost, or its effect comes after the caller gave up.
LoseWrite(w, a) ==
  \/ UNCHANGED upstream
  \/ /\ LateCount < MaxLate
     /\ late' = [late EXCEPT ![a] = @ \cup {w}]
     /\ UNCHANGED <<status, sched, owner, tainted>>

\* One write of a mutation: applied and acknowledged, applied without an
\* answer, or lost.
Write(w, step, next, readback) ==
  /\ pc = step
  /\ \/ Apply(w, cur) /\ UNCHANGED <<late, tainted>> /\ (Goto(next) \/ Goto(readback))
     \/ LoseWrite(w, cur) /\ Goto(readback)
  /\ UNCHANGED registry

DisablePut == Write("putInactive", "dput", "dpost", "dreadback")
DisablePost == Write("postFalse", "dpost", "dverify", "dreadback")

\* The result of disable_account as each caller uses it.
DisableSucceeded == Goto("dok")
DisableFailed == IF mode = "sweep" THEN Goto("dfailed") ELSE Leave("intents")
\* Mutant: a half-applied disable is reported as not applied.
DisableUncertainAsFailed == IF mode = "sweep" THEN Goto("dfailed") ELSE Leave("intents")

\* The coordinator stops the sweep; the reconciliation keeps the intent.
DisableUncertain ==
  IF mode = "sweep"
  THEN /\ pc' = "sweep" /\ mode' = "none" /\ cur' = NoAccount /\ todo' = {}
       /\ UNCHANGED <<chosen, fresh, adjusted, failure>>
  ELSE Leave("intents")

DisableVerify ==
  /\ pc = "dverify"
  /\ \/ Off(cur) /\ DisableSucceeded
     \/ Goto("dreadback")
  /\ UNCHANGED <<upstream, registry>>

DisableReadback ==
  /\ pc = "dreadback"
  /\ \/ Off(cur) /\ DisableSucceeded
     \/ ~Off(cur) /\ (status[cur] = "inactive" \/ ~sched[cur]) /\ DisableUncertain
     \/ status[cur] # "inactive" /\ sched[cur] /\ DisableFailed
     \/ DisableUncertain  \* the read-back itself failed
  /\ UNCHANGED <<upstream, registry>>

(* promote_account_quarantine_intent: marker in, intent out, one transaction. *)
Promote ==
  /\ pc = "dok"
  /\ IF cur \in intents
     THEN /\ markers' = markers \cup {cur} /\ intents' = intents \ {cur}
          /\ streak' = [streak EXCEPT ![cur] = 0] /\ passes' = [passes EXCEPT ![cur] = 0]
          /\ previous' = [previous EXCEPT ![cur] = NoState]
          /\ UNCHANGED <<slow, restores>>
          /\ pc' = IF mode = "sweep" THEN "sweep" ELSE "intents"
          /\ adjusted' = IF mode = "sweep" THEN adjusted \cup {cur} ELSE adjusted
          /\ mode' = "none" /\ cur' = NoAccount
          /\ UNCHANGED <<todo, chosen, fresh, failure>>
     ELSE UNCHANGED registry
          /\ IF mode = "sweep" THEN End("inconsistent") ELSE Leave("intents")
  /\ UNCHANGED upstream

RemoveIntent(step, next) ==
  /\ pc = step
  /\ intents' = intents \ {cur}
  /\ slow' = IF cur \in markers THEN slow ELSE slow \ {cur}
  /\ previous' = [previous EXCEPT ![cur] = NoState]
  /\ UNCHANGED <<markers, streak, restores, passes>>
  /\ Leave(next)
  /\ UNCHANGED upstream

-----------------------------------------------------------------------------
(* Phase 1 and 2 of the job: what an earlier, interrupted job left behind. *)

\* Out of the monitored groups, not readable, or groups that changed.
KeepIntent(a) ==
  /\ pc = "intents" /\ a \in todo
  /\ Skip(a)
  /\ UNCHANGED <<upstream, registry>>

ReconcileIntent(a) ==
  /\ pc = "intents" /\ a \in todo
  /\ \/ State(a) = previous[a] /\ Work("clear", "reconcile", a)
     \/ State(a) # previous[a] /\ status[a] = "inactive" /\ Work("dput", "reconcile", a)
     \/ State(a) # previous[a] /\ HumanPause(a) /\ Skip(a)
     \/ /\ State(a) # previous[a] /\ status[a] # "inactive" /\ ~HumanPause(a)
        /\ Work("clear", "reconcile", a)
  /\ UNCHANGED <<upstream, registry>>

ClearIntent == RemoveIntent("clear", "intents")
RemoveFailedIntent == RemoveIntent("dfailed", "sweep")

FinishIntents ==
  /\ pc = "intents" /\ todo = {}
  /\ \E B \in SUBSET restores : IsBatch(B, restores) /\ todo' = B
  /\ pc' = "restores"
  /\ UNCHANGED <<upstream, registry, mode, cur, chosen, fresh, adjusted, failure>>

KeepRestore(a) ==
  /\ pc = "restores" /\ a \in todo
  /\ Skip(a)
  /\ UNCHANGED <<upstream, registry>>

ReconcileRestore(a) ==
  /\ pc = "restores" /\ a \in todo
  /\ \/ a \notin markers /\ Work("cancel", "reconcile", a)
     \/ a \in markers /\ Dispatched(a) /\ Work("complete", "reconcile", a)
     \/ a \in markers /\ Off(a) /\ Work("cancel", "reconcile", a)
     \/ a \in markers /\ ~Dispatched(a) /\ ~Off(a) /\ Work("rtest", "reconcile", a)
  /\ UNCHANGED <<upstream, registry>>

\* A passing test restores at once; anything else keeps the restore intent.
TestRestore ==
  /\ pc = "rtest"
  /\ \/ /\ passes' = [passes EXCEPT ![cur] = IF @ = 2 THEN 2 ELSE @ + 1]
        /\ Goto("rclear")
     \/ UNCHANGED passes /\ Leave("restores")
  /\ UNCHANGED <<upstream, intents, previous, markers, slow, streak, restores>>

FinishRestores ==
  /\ pc = "restores" /\ todo = {}
  /\ Goto("select")
  /\ UNCHANGED <<upstream, registry>>

-----------------------------------------------------------------------------
(* Phase 3: choose the markers to probe, then look for accounts to disable. *)

\* _ChannelAccountSweepService._eligible and _MinimumUsablePool._is_usable.
Eligible(state, isSlow) ==
  IF isSlow THEN state = <<"active", TRUE>>
  ELSE state[1] # "inactive" /\ state # <<"active", FALSE>>

\* The candidates come from one read of the accounts, used until the sweep ends.
Select ==
  /\ pc = "select"
  /\ \E B \in SUBSET markers : IsBatch(B, markers) /\ chosen' = B
  /\ todo' \in SUBSET {a \in Accounts \ Registered : Eligible(State(a), FALSE)}
  /\ fresh' = [a \in Accounts |-> IF a \in todo' THEN State(a) ELSE Unread[a]]
  /\ pc' = "sweep"
  /\ UNCHANGED <<upstream, registry, mode, cur, adjusted, failure>>

\* The minimum pool or an ambiguous group mapping protects the account.
SkipCandidate(a) ==
  /\ pc = "sweep" /\ a \in todo
  /\ Skip(a)
  /\ UNCHANGED <<upstream, registry>>

\* Mutant: the capacity check lets one row too many in.
RecordIntentOverCapacity(a, isSlow) ==
  /\ pc = "sweep" /\ a \in todo
  /\ Eligible(fresh[a], isSlow)
  /\ Cardinality(intents) + Cardinality(markers) <= Capacity
  /\ intents' = intents \cup {a} /\ previous' = [previous EXCEPT ![a] = fresh[a]]
  /\ slow' = IF isSlow THEN slow \cup {a} ELSE slow \ {a}
  /\ UNCHANGED <<markers, streak, restores, passes, upstream>>
  /\ Work("dput", "sweep", a)

\* Mutant: the first upstream write goes out before the intent is stored.
RecordIntentAfterwards(a, isSlow) ==
  /\ pc = "sweep" /\ a \in todo
  /\ Eligible(fresh[a], isSlow)
  /\ Work("dput", "sweep", a)
  /\ UNCHANGED <<upstream, registry>>

\* upsert_account_quarantine_intent, called before the first upstream write.
RecordIntent(a, isSlow) ==
  /\ pc = "sweep" /\ a \in todo
  /\ Eligible(fresh[a], isSlow)
  /\ IF a \in markers THEN End("inconsistent") /\ UNCHANGED registry
     ELSE IF a \notin intents /\ Cardinality(intents) + Cardinality(markers) >= Capacity
     THEN End("capacity") /\ UNCHANGED registry
     ELSE /\ IF a \in intents THEN UNCHANGED registry  \* the stored intent is kept
             ELSE /\ intents' = intents \cup {a}
                  /\ previous' = [previous EXCEPT ![a] = fresh[a]]
                  /\ slow' = IF isSlow THEN slow \cup {a} ELSE slow \ {a}
                  /\ UNCHANGED <<markers, streak, restores, passes>>
          /\ Work("dput", "sweep", a)
  /\ UNCHANGED upstream

\* Every account reported as quarantined must have its marker.
FinishSweep ==
  /\ pc = "sweep" /\ todo = {}
  /\ IF adjusted \subseteq markers
     THEN /\ pc' = "probes" /\ todo' = chosen /\ fresh' = Unread /\ adjusted' = {}
          /\ UNCHANGED <<mode, cur, chosen, failure>>
     ELSE End("inconsistent")
  /\ UNCHANGED <<upstream, registry>>

-----------------------------------------------------------------------------
(* Phase 4: probe the chosen markers.                                      *)

\* Out of scope, not readable, or not in the state the service left it in.
ProbeInvalid(a) ==
  /\ pc = "probes" /\ a \in todo
  /\ Work("miss", "probe", a)
  /\ UNCHANGED <<upstream, registry>>

ProbeStart(a) ==
  /\ pc = "probes" /\ a \in todo
  /\ Off(a)
  /\ Work("ptest", "probe", a)
  /\ UNCHANGED <<upstream, registry>>

\* Only the first good answer of a slow account is not enough.
ProbeTest ==
  /\ pc = "ptest"
  /\ \/ UNCHANGED passes /\ Goto("miss")
     \/ /\ passes' = [passes EXCEPT ![cur] = IF @ = 2 THEN 2 ELSE @ + 1]
        /\ Goto(IF cur \in slow /\ streak[cur] = 0 THEN "pass" ELSE "rbegin")
  /\ UNCHANGED <<upstream, intents, previous, markers, slow, streak, restores>>

\* Mutant: the streak is incremented twice.
RecordPassTwice ==
  /\ pc = "pass"
  /\ streak' = [streak EXCEPT ![cur] = @ + 2] /\ Leave("probes")
  /\ UNCHANGED <<upstream, intents, previous, markers, slow, restores, passes>>

\* update_account_quarantine_probe, for an account that stays quarantined.
RecordPass ==
  /\ pc = "pass"
  /\ IF cur \in markers \cap slow /\ streak[cur] = 0
     THEN streak' = [streak EXCEPT ![cur] = 1] /\ Leave("probes")
     ELSE UNCHANGED streak /\ End("inconsistent")
  /\ UNCHANGED <<upstream, intents, previous, markers, slow, restores, passes>>

\* Mutant: a miss does not reset recovery_success_streak.
RecordMissKeepsStreak ==
  /\ pc = "miss"
  /\ passes' = [passes EXCEPT ![cur] = 0] /\ Leave("probes")
  /\ UNCHANGED <<upstream, intents, previous, markers, slow, restores, streak>>

RecordMiss ==
  /\ pc = "miss"
  /\ IF cur \in markers
     THEN /\ streak' = [streak EXCEPT ![cur] = 0]
          /\ passes' = [passes EXCEPT ![cur] = 0] /\ Leave("probes")
     ELSE UNCHANGED <<streak, passes>> /\ End("inconsistent")
  /\ UNCHANGED <<upstream, intents, previous, markers, slow, restores>>

\* Mutant: the restore's first write goes out before its intent is stored.
BeginRestoreUnrecorded ==
  /\ pc = "rbegin"
  /\ Goto("rclear")
  /\ UNCHANGED <<upstream, registry>>

BeginRestore ==
  /\ pc = "rbegin"
  /\ IF cur \in markers
     THEN restores' = restores \cup {cur} /\ Goto("rclear")
     ELSE UNCHANGED restores /\ Goto("miss")
  /\ UNCHANGED <<upstream, intents, previous, markers, slow, streak, passes>>

FinishProbes ==
  /\ pc = "probes" /\ todo = {}
  /\ End("none")
  /\ UNCHANGED <<upstream, registry>>

-----------------------------------------------------------------------------
(* restore_account: POST recover-state, PUT status, POST schedulable, GET,  *)
(* within a deadline.                                                      *)

\* Whatever recover-state answers, the explicit writes follow.
RestoreClear ==
  /\ pc = "rclear"
  /\ \/ Apply("recover", cur) /\ UNCHANGED <<late, tainted>>
     \/ LoseWrite("recover", cur)
  /\ Goto("rput")
  /\ UNCHANGED registry

RestorePut == Write("putActive", "rput", "rpost", "rreadback")
RestorePost == Write("postTrue", "rpost", "rverify", "rreadback")

RestoreSucceeded == Goto("complete")
RestoreFailed == IF mode = "probe" THEN Goto("cancel") ELSE Leave("restores")
\* Mutant: an uncertain result is read again until it is certain.
RestoreUncertainRetries == Goto(IF pc = "rverify" THEN "rreadback" ELSE "rverify")

RestoreUncertain == IF mode = "probe" THEN Goto("miss") ELSE Leave("restores")

\* The deadline passed before anything was written.
RestoreTooLate ==
  /\ pc = "rclear"
  /\ RestoreFailed
  /\ UNCHANGED <<upstream, registry>>

\* The deadline passed between the writes: one read decides.
RestoreCutShort ==
  /\ pc \in {"rput", "rpost", "rverify"}
  /\ Goto("rreadback")
  /\ UNCHANGED <<upstream, registry>>

\* classify_readback; an account back in dispatch may still be rate-limited or
\* expired, which counts as uncertain, as does a read that fails.
RestoreClassify ==
  /\ pc \in {"rverify", "rreadback"}
  /\ \/ Dispatched(cur) /\ RestoreSucceeded
     \/ Off(cur) /\ RestoreFailed
     \/ ~Off(cur) /\ RestoreUncertain
     \/ pc = "rreadback" /\ RestoreUncertain
  /\ UNCHANGED <<upstream, registry>>

(* complete_account_quarantine_restore: the marker goes, and with it, by      *)
(* cascade, its restore intent.                                              *)
CompleteRestore ==
  /\ pc = "complete"
  /\ IF cur \in restores \cap markers
     THEN /\ markers' = markers \ {cur} /\ restores' = restores \ {cur}
          /\ slow' = slow \ {cur}
          /\ streak' = [streak EXCEPT ![cur] = 0] /\ passes' = [passes EXCEPT ![cur] = 0]
          /\ Leave(IF mode = "probe" THEN "probes" ELSE "restores")
     ELSE /\ UNCHANGED <<markers, restores, slow, streak, passes>>
          /\ IF mode = "probe" THEN Goto("miss") ELSE Leave("restores")
  /\ UNCHANGED <<upstream, intents, previous>>

\* Mutant: cancelling a restore also forgets the marker.
CancelRestoreDropsMarker ==
  /\ pc = "cancel"
  /\ restores' = restores \ {cur} /\ markers' = markers \ {cur} /\ slow' = slow \ {cur}
  /\ IF mode = "probe" THEN Goto("miss") ELSE Leave("restores")
  /\ UNCHANGED <<upstream, intents, previous, streak, passes>>

CancelRestore ==
  /\ pc = "cancel"
  /\ restores' = restores \ {cur}
  /\ IF mode = "probe" THEN Goto("miss") ELSE Leave("restores")
  /\ UNCHANGED <<upstream, intents, previous, markers, slow, streak, passes>>

\* A database error around a restore is caught by the probe loop.
ProbeException ==
  /\ mode = "probe" /\ pc \in {"rbegin", "complete", "cancel"}
  /\ Goto("miss")
  /\ UNCHANGED <<upstream, registry>>

-----------------------------------------------------------------------------
(* Everything else that can happen.                                        *)

Unfinished ==
  CASE pc = "dput" -> {"putInactive", "postFalse"} [] pc = "dpost" -> {"postFalse"}
    [] pc = "rclear" -> {"recover", "putActive", "postTrue"}
    [] pc = "rput" -> {"putActive", "postTrue"} [] pc = "rpost" -> {"postTrue"}
    [] OTHER -> {}

\* The process dies, the job is cancelled because its lease was lost, or a
\* database call raises.  The thread of an upstream call is not stopped.
AbortJob ==
  /\ pc # "idle"
  /\ \/ UNCHANGED late
     \/ \E W \in SUBSET Unfinished :
          /\ W # {} /\ LateCount + Cardinality(W) <= MaxLate
          /\ late' = [late EXCEPT ![cur] = @ \cup W]
  /\ End("aborted")
  /\ UNCHANGED <<status, sched, owner, tainted, registry>>

LandLate(a) ==
  /\ \E w \in late[a] : Apply(w, a) /\ late' = [late EXCEPT ![a] = @ \ {w}]
  /\ tainted' = tainted \cup {a}
  /\ UNCHANGED <<registry, job>>

\* An operator edits the account in the upstream console.
HumanEdit(a, s, b) ==
  /\ <<s, b>> # State(a)
  /\ SetStatus(a, s) /\ SetSched(a, b)
  /\ owner' = [owner EXCEPT ![a] = "human"]
  /\ UNCHANGED <<late, tainted, registry, job>>

\* The upstream server marks an account whose requests fail.
ServerError(a) ==
  /\ Dispatched(a)
  /\ SetStatus(a, "error")
  /\ UNCHANGED <<sched, owner, late, tainted, registry, job>>

JobStep ==
  \/ \E a \in Accounts : \/ KeepIntent(a) \/ ReconcileIntent(a)
                         \/ KeepRestore(a) \/ ReconcileRestore(a)
                         \/ SkipCandidate(a) \/ ProbeInvalid(a) \/ ProbeStart(a)
  \/ \E a \in Accounts, isSlow \in BOOLEAN : RecordIntent(a, isSlow)
  \/ DisablePut \/ DisablePost \/ DisableVerify \/ DisableReadback
  \/ Promote \/ ClearIntent \/ RemoveFailedIntent
  \/ FinishIntents \/ TestRestore \/ FinishRestores \/ Select \/ FinishSweep
  \/ ProbeTest \/ RecordPass \/ RecordMiss \/ BeginRestore \/ FinishProbes
  \/ RestoreClear \/ RestorePut \/ RestorePost \/ RestoreTooLate \/ RestoreCutShort
  \/ RestoreClassify \/ CompleteRestore \/ CancelRestore \/ ProbeException

Environment ==
  \E a \in Accounts : \/ LandLate(a) \/ ServerError(a)
                      \/ \E s \in {"active", "inactive"}, b \in BOOLEAN : HumanEdit(a, s, b)

Next == StartJob \/ JobStep \/ AbortJob \/ Environment

Spec == Init /\ [][Next]_vars
FairSpec == Spec /\ WF_vars(JobStep)

-----------------------------------------------------------------------------
(* Properties.                                                             *)

\* An account is in at most one table of the registry, a restore intent needs its
\* marker (the schema's foreign key), and the registry never exceeds its size:
\* promote, complete and the two upserts keep this across every interleaving.
RegistryConsistent ==
  /\ intents \cap markers = {}
  /\ restores \subseteq markers
  /\ slow \subseteq Registered
  /\ Cardinality(intents) + Cardinality(markers) <= Capacity

\* Crash safety of the quarantine: an account that the service took out of dispatch
\* is in the registry, so that a later job finds it, whatever step the job died at and
\* whatever an operator did meanwhile.  Only a write that lands after its caller is
\* gone (a thread that outlives its cancelled job) can leave an account behind.
NoOrphan ==
  \A a \in Accounts : owner[a] = "service" => a \in Registered \cup tainted

\* A slow account is handed to restore_account by the probe phase only after two
\* passing tests since its last recorded miss, also when jobs die between a test and
\* its record (recovery_success_streak in update_account_quarantine_probe).
TwoPassesBeforeRestore ==
  pc = "rbegin" /\ cur \in slow => passes[cur] = 2

\* The errors that stand for a broken registry are never raised: QUARANTINE_*_MISSING,
\* QUARANTINE_TRANSITION_CONFLICT, QUARANTINE_NOT_FOUND and the ValueError for a second
\* passing probe that did not restore.
RegistryErrorsUnreachable == failure # "inconsistent"

\* A maintenance job ends, so the control worker, which runs one job at a time, is
\* free again, whatever the upstream answers and whatever operators edit meanwhile.
JobEnds == (pc # "idle") ~> (pc = "idle")

\* The registry keeps the promises of QuarantineLedger.
Phase(a) ==
  IF a \in intents THEN "suspect"
  ELSE IF a \in restores THEN "releasing"
  ELSE IF a \in markers THEN "held" ELSE "free"

\* The mutation whose writes the job is sending.
Call(a) ==
  IF cur # a THEN "none"
  ELSE IF pc \in {"dput", "dpost"} THEN "off"
  ELSE IF pc \in {"rclear", "rput", "rpost"} THEN "on" ELSE "none"

Ledger == INSTANCE QuarantineLedger WITH
  phase <- [a \in Accounts |-> Phase(a)], call <- [a \in Accounts |-> Call(a)]

\* Every step of the job, crash, operator or late write is a step the ledger allows.
\* Write-ahead on both sides: disable_account's writes are sent only while the account's
\* intent is stored, restore_account's only while its restore intent is, and no row of
\* the account changes under them; only then does the service take an account out of
\* dispatch or put it back, whatever a job that died has left.  No account is forgotten
\* while the service keeps it out of dispatch.
KeepsLedger == Ledger!Spec
=============================================================================
