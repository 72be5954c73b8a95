--------------------------- MODULE GuardianCommands ---------------------------
(***************************************************************************)
(* What the console and the tools ask of Guardian, as the HTTP API carries *)
(* it out: authentication aside, a request looks its idempotency key up,   *)
(* reads what it is to change, changes it, saves its result under the key, *)
(* and answers.  A client that gets no answer sends the same request       *)
(* again, so that copies of a command overlap.                             *)
(*                                                                         *)
(* Commands on the policy carry the revision they were made against; those *)
(* on a channel's override carry none; the third kind submits a recovery   *)
(* job.  What a cycle does to the channels' rows is GuardianCycle's.       *)
(***************************************************************************)
EXTENDS Naturals, FiniteSets

CONSTANTS
  PolicyCommands,    \* PATCH policy, and scheduling start and stop
  ChannelCommands,   \* PATCH of one channel
  JobCommands,       \* submit recovery
  Keyless,           \* those of them sent without an idempotency key
  Fields, FieldOf,   \* the field that a patch sets
  Copies,            \* requests the server handles at a time
  None,
  MaxCommands,       \* bound: how many of the commands are sent
  MaxFaults          \* bound: requests that die, answers that are lost

Commands == PolicyCommands \union ChannelCommands \union JobCommands
Patches == PolicyCommands \union ChannelCommands

ASSUME CommandsAssumption ==
  /\ None \notin Commands /\ IsFiniteSet(Commands)
  /\ PolicyCommands \intersect ChannelCommands = {} /\ Patches \intersect JobCommands = {}
  /\ Keyless \subseteq Patches /\ FieldOf \in [Patches -> Fields]
ASSUME BoundsAssumption == IsFiniteSet(Copies) /\ MaxCommands \in Nat /\ MaxFaults \in Nat

VARIABLES
  revision,   \* of guardian_policy
  policy,     \* its fields: the command that set each
  override,   \* guardian_channel_overrides, one row: likewise
  active,     \* the RECOVERY job that is QUEUED or RUNNING: whose it is
  saved,      \* guardian_idempotency: the commands with a result
  expected,   \* the revision a command was made against; 0 before it is sent
  request,    \* what becomes of each request
  answered,   \* commands the client has an answer to
  faults,
  lastSet,    \* history: the last command that set a field, of the policy or the channel
  times,      \* history: how often a command took effect
  overlapped, \* history: commands that took effect while another patch had read the row
  again       \* history: how many reasons a command has had to take effect once more

vars == <<revision, policy, override, active, saved, expected, request, answered, faults,
          lastSet, times, overlapped, again>>

-----------------------------------------------------------------------------
(* State *)

Values == Commands \union {None}
Contents == [Fields -> Values]
Places == {"free", "lookup", "read", "act", "save", "answer"}

\* base: the row as it was read.  since: patches of the row that took effect after that.
Free == [at |-> "free", cmd |-> None, base |-> [f \in Fields |-> None], since |-> {}]
Requests == [at : Places, cmd : Values, base : Contents, since : SUBSET Commands]

\* Copies of a command that have found no result, and will act or have yet to save.
Underway(c) == {p \in Copies : request[p].cmd = c /\ request[p].at \in {"read", "act", "save"}}
Reason(c, given) == again' = IF given /\ c \notin Keyless THEN [again EXCEPT ![c] = @ + 1] ELSE again

Goes(p, r) == request' = [request EXCEPT ![p] = r]
Moves(p, place) == Goes(p, [request[p] EXCEPT !.at = place])
Faulty == faults < MaxFaults /\ faults' = faults + 1

rows == <<revision, policy, override, active>>
client == <<expected, answered>>
history == <<lastSet, times, overlapped, again>>

Init ==
  /\ revision = 1
  /\ policy = [f \in Fields |-> None] /\ override = [f \in Fields |-> None] /\ active = None
  /\ saved = {}
  /\ expected = [c \in Commands |-> 0]
  /\ request = [p \in Copies |-> Free]
  /\ answered = {} /\ faults = 0
  /\ lastSet = [kind \in {"policy", "channel"} |-> [f \in Fields |-> None]]
  /\ times = [c \in Commands |-> 0] /\ overlapped = {}
  /\ again = [c \in Commands |-> 0]

-----------------------------------------------------------------------------
(* A request *)

\* The revisions that a client may have seen; only the policy has one.
Seen(c) == IF c \in PolicyCommands THEN 1..revision ELSE {1}

\* A client sends a command, made against a revision it has seen, and sends it again, as it
\* was, as long as it has no answer.
Send(p, c) ==
  /\ request[p] = Free /\ c \notin answered
  /\ expected[c] = 0 => Cardinality({d \in Commands : expected[d] # 0}) < MaxCommands
  /\ IF expected[c] = 0 THEN \E r \in Seen(c) : expected' = [expected EXCEPT ![c] = r]
                        ELSE UNCHANGED expected
  /\ Goes(p, [Free EXCEPT !.at = "lookup", !.cmd = c])
  /\ UNCHANGED <<rows, saved, answered, faults, history>>

\* get_idempotent_result: a saved result is the answer.  One that another copy is about to
\* save is not found.
Lookup(p) ==
  LET c == request[p].cmd
  IN /\ request[p].at = "lookup"
     /\ Moves(p, IF c \in saved THEN "answer" ELSE "read")
     /\ Reason(c, c \notin saved /\ Underway(c) # {})
     /\ UNCHANGED <<rows, saved, client, faults, lastSet, times, overlapped>>

\* get_policy, get_channel_override.
Read(p) ==
  /\ request[p].at = "read"
  /\ Goes(p, [request[p] EXCEPT !.at = "act",
                !.base = IF request[p].cmd \in PolicyCommands THEN policy ELSE override])
  /\ UNCHANGED <<rows, saved, client, faults, history>>

\* The field's new value is known to every other request that has read the row: as stale.
TakesEffect(p, kind) ==
  LET c == request[p].cmd
      rivals == {q \in Copies \ {p} : /\ request[q].at = "act"
                                      /\ request[q].cmd \in (IF kind = "policy" THEN PolicyCommands
                                                                               ELSE ChannelCommands)}
  IN /\ request' = [q \in Copies |->
                      IF q = p THEN [request[p] EXCEPT !.at = "save", !.base = Free.base, !.since = {}]
                      ELSE IF q \in rivals THEN [request[q] EXCEPT !.since = @ \union {c}]
                      ELSE request[q]]
     /\ lastSet' = [lastSet EXCEPT ![kind][FieldOf[c]] = c]
     /\ times' = [times EXCEPT ![c] = @ + 1]
     /\ overlapped' = overlapped \union request[p].since

\* Mutant: the revision the policy has now is taken for the client's.
UpdatePolicyAsItIs(p) ==
  LET r == request[p]
  IN /\ r.at = "act" /\ r.cmd \in PolicyCommands
     /\ policy' = [r.base EXCEPT ![FieldOf[r.cmd]] = r.cmd]
     /\ revision' = revision + 1
     /\ TakesEffect(p, "policy")
     /\ UNCHANGED <<override, active, saved, client, faults, again>>

\* update_policy: compare-and-set on the revision, in one transaction.
UpdatePolicy(p) ==
  LET r == request[p]
  IN /\ r.at = "act" /\ r.cmd \in PolicyCommands
     /\ expected[r.cmd] = revision
     /\ policy' = [r.base EXCEPT ![FieldOf[r.cmd]] = r.cmd]
     /\ revision' = revision + 1
     /\ TakesEffect(p, "policy")
     /\ UNCHANGED <<override, active, saved, client, faults, again>>

\* POLICY_REVISION_CONFLICT.
Conflict(p) ==
  LET r == request[p]
  IN /\ r.at = "act" /\ r.cmd \in PolicyCommands
     /\ expected[r.cmd] # revision
     /\ Moves(p, "answer")
     /\ UNCHANGED <<rows, saved, client, faults, history>>

\* Mutant: the patch replaces the override.
UpdateChannelAfresh(p) ==
  LET r == request[p]
  IN /\ r.at = "act" /\ r.cmd \in ChannelCommands
     /\ override' = [[f \in Fields |-> None] EXCEPT ![FieldOf[r.cmd]] = r.cmd]
     /\ TakesEffect(p, "channel")
     /\ UNCHANGED <<revision, policy, active, saved, client, faults, again>>

\* upsert_channel_override: what was read, with the patch.
UpdateChannel(p) ==
  LET r == request[p]
  IN /\ r.at = "act" /\ r.cmd \in ChannelCommands
     /\ override' = [r.base EXCEPT ![FieldOf[r.cmd]] = r.cmd]
     /\ TakesEffect(p, "channel")
     /\ UNCHANGED <<revision, policy, active, saved, client, faults, again>>

\* create_job_with_capacity, of one: JOB_ALREADY_ACTIVE otherwise.
SubmitJob(p) ==
  LET c == request[p].cmd
  IN /\ request[p].at = "act" /\ c \in JobCommands
     /\ IF active = None
        THEN /\ active' = c /\ times' = [times EXCEPT ![c] = @ + 1]
             /\ Moves(p, "save")
        ELSE Moves(p, "answer") /\ UNCHANGED <<active, times>>
     /\ UNCHANGED <<revision, policy, override, saved, client, faults, lastSet, overlapped, again>>

\* Mutant: nothing is kept of a job that was submitted.
SavePolicyOnly(p) ==
  LET c == request[p].cmd
  IN /\ request[p].at = "save"
     /\ saved' = IF c \in Keyless \union JobCommands THEN saved ELSE saved \union {c}
     /\ Moves(p, "answer")
     /\ UNCHANGED <<rows, client, faults, history>>

\* Mutant: without a key, too.
SaveAlways(p) ==
  LET c == request[p].cmd
  IN /\ request[p].at = "save"
     /\ saved' = saved \union {c}
     /\ Moves(p, "answer")
     /\ UNCHANGED <<rows, client, faults, history>>

\* save_idempotent_result.
Save(p) ==
  LET c == request[p].cmd
  IN /\ request[p].at = "save"
     /\ saved' = IF c \in Keyless THEN saved ELSE saved \union {c}
     /\ Moves(p, "answer")
     /\ UNCHANGED <<rows, client, faults, history>>

Answer(p) ==
  /\ request[p].at = "answer"
  /\ answered' = answered \union {request[p].cmd}
  /\ Goes(p, Free)
  /\ UNCHANGED <<rows, saved, expected, faults, history>>

\* The request dies with its connection, its process or the database, or its answer is lost.
Dies(p) ==
  LET c == request[p].cmd
  IN /\ request[p].at # "free" /\ Faulty
     /\ Goes(p, Free)
     /\ Reason(c, request[p].at = "save" /\ c \notin saved /\ Underway(c) = {p})
     /\ UNCHANGED <<rows, saved, client, lastSet, times, overlapped>>

\* Retention: after seven days a result is deleted.
Forget(c) ==
  /\ c \in saved
  /\ saved' = saved \ {c}
  /\ Reason(c, Underway(c) = {})
  /\ UNCHANGED <<rows, client, request, faults, lastSet, times, overlapped>>

\* The control worker is through with the job.
JobEnds ==
  /\ active # None /\ active' = None
  /\ UNCHANGED <<revision, policy, override, saved, client, request, faults, history>>

Act(p) == UpdatePolicy(p) \/ Conflict(p) \/ UpdateChannel(p) \/ SubmitJob(p)

Next ==
  \/ \E p \in Copies : \/ \E c \in Commands : Send(p, c)
                       \/ Lookup(p) \/ Read(p) \/ Act(p) \/ Save(p) \/ Answer(p) \/ Dies(p)
  \/ \E c \in Commands : Forget(c)
  \/ JobEnds

Spec == Init /\ [][Next]_vars

-----------------------------------------------------------------------------
(* Properties *)

TypeOK ==
  /\ revision \in Nat \ {0}
  /\ policy \in Contents /\ override \in Contents /\ active \in JobCommands \union {None}
  /\ saved \subseteq Commands \ Keyless
  /\ expected \in [Commands -> Nat]
  /\ request \in [Copies -> Requests]
  /\ answered \subseteq Commands /\ faults \in 0..MaxFaults
  /\ lastSet \in [{"policy", "channel"} -> Contents]
  /\ times \in [Commands -> Nat] /\ overlapped \subseteq Commands
  /\ again \in [Commands -> Nat]

\* No update of the policy is lost, and none is made twice, though it is written as a whole
\* from a row that was read before: whatever copies and rivals a command has, the policy's
\* fields are those of the last commands that set them (repository.py: "keeps the revision
\* check and the write atomic against a concurrent PATCH").
NoLostUpdate ==
  /\ policy = lastSet["policy"]
  /\ \A c \in PolicyCommands : times[c] <= 1

\* A patch of a channel's override, which has no revision, is lost only to a patch that had
\* read the override before it was written.
PatchKept ==
  \A f \in Fields :
    lastSet["channel"][f] # None /\ override[f] # lastSet["channel"][f] =>
      lastSet["channel"][f] \in overlapped

\* A command with a key takes effect once, and at most once more for each copy that found no
\* result because another one was under way, each request that died after the effect with the
\* only result there would have been, and each result that is no longer kept.  No other retry,
\* and no answer that was lost, makes it take effect again (api.py: look the key up, act, save).
RepeatedForCause == \A c \in Commands \ Keyless : times[c] <= 1 + again[c]

=============================================================================
