----------------------- MODULE GuardianCommands_proofs -----------------------
(* Proofs about GuardianCommands: its types, that no update of the policy is lost, a patch only  *)
(* to one that overlaps it, and that a command takes effect again only for a cause.              *)
EXTENDS GuardianCommands, FiniteSetTheorems, TLAPS

(* The inductive invariant.  Known: who handles a command handles one that was sent.  Sent: a  *)
(* command is made against a revision that there is.  FreshBase: who may still write the       *)
(* policy has read it as it is.  Once: a command that took effect is out of date.  PatchBase:  *)
(* who writes an override has read the last patches, but for those that it will overlap.       *)
(* Accounted: the times a command took effect or may yet, by the copies that have found no     *)
(* result and by one that would find none, are no more than there are reasons for.             *)
Known ==
  \A p \in Copies :
    request[p].at # "free" => request[p].cmd \in Commands /\ expected[request[p].cmd] # 0
Sent == \A c \in Commands : expected[c] <= revision
FreshBase ==
  \A p \in Copies :
    /\ request[p].at = "act" /\ request[p].cmd \in PolicyCommands
    /\ expected[request[p].cmd] = revision
    => request[p].base = policy
Once ==
  \A c \in PolicyCommands :
    times[c] # 0 => times[c] = 1 /\ expected[c] # 0 /\ expected[c] < revision
Overlaps(f, contents, crossing) ==
  lastSet["channel"][f] # None /\ contents[f] # lastSet["channel"][f] =>
    lastSet["channel"][f] \in crossing
PatchBase ==
  \A p \in Copies, f \in Fields :
    request[p].at = "act" /\ request[p].cmd \in ChannelCommands =>
      Overlaps(f, request[p].base, overlapped \union request[p].since)
Doing(c) == {p \in Copies : request[p].cmd = c /\ request[p].at \in {"read", "act"}}
Spare(c) == IF c \notin saved /\ Underway(c) = {} THEN 1 ELSE 0
Accounted ==
  \A c \in Commands \ Keyless : times[c] + Cardinality(Doing(c)) + Spare(c) <= 1 + again[c]

Inv ==
  /\ TypeOK /\ Known /\ Sent
  /\ FreshBase /\ Once /\ policy = lastSet["policy"]
  /\ PatchBase /\ PatchKept
  /\ Accounted

LEMMA FreeIsRequest == Free \in Requests
BY DEF Free, Requests, Places, Contents, Values

LEMMA TypeInit == Init => TypeOK
BY CommandsAssumption, BoundsAssumption
   DEF Init, TypeOK, Contents, Values, Commands, Requests, Free, Places

LEMMA FieldOfPatch == \A c \in PolicyCommands \union ChannelCommands : FieldOf[c] \in Fields
BY CommandsAssumption DEF Patches

\* The bookkeeping of a patch that takes effect.
LEMMA TypeTakesEffect ==
  ASSUME TypeOK, NEW p \in Copies, NEW kind \in {"policy", "channel"}, TakesEffect(p, kind),
         request[p].cmd \in Patches
  PROVE  /\ request' \in [Copies -> Requests]
         /\ lastSet' \in [{"policy", "channel"} -> Contents]
         /\ times' \in [Commands -> Nat] /\ overlapped' \subseteq Commands
<1>1. request[p] \in Requests /\ \A q \in Copies : request[q] \in Requests
  BY DEF TypeOK
<1>2. request[p].cmd \in Commands /\ request[p].since \subseteq Commands
  BY <1>1 DEF Requests, Commands, Patches
<1>3. request' \in [Copies -> Requests]
  BY <1>1, <1>2 DEF TakesEffect, Requests, Places, Free, Contents, Values
<1>4. lastSet' \in [{"policy", "channel"} -> Contents]
  BY <1>2, FieldOfPatch DEF TakesEffect, TypeOK, Contents, Values, Patches
<1>5. times' \in [Commands -> Nat] /\ overlapped' \subseteq Commands
  BY <1>2 DEF TakesEffect, TypeOK
<1> QED BY <1>3, <1>4, <1>5

LEMMA ReasonTyped ==
  ASSUME TypeOK, NEW c \in Commands, NEW given \in BOOLEAN, Reason(c, given)
  PROVE  again' \in [Commands -> Nat]
BY DEF TypeOK, Reason

\* A key that is looked up.
LEMMA LookupMoves ==
  ASSUME NEW p \in Copies, Lookup(p)
  PROVE  \E place \in {"answer", "read"} :
           request' = [request EXCEPT ![p] = [request[p] EXCEPT !.at = place]]
BY DEF Lookup, Moves, Goes

\* THEOREM TypeCorrect's step, one per action.
LEMMA TypeNext == TypeOK /\ Known /\ [Next]_vars => TypeOK'
<1> SUFFICES ASSUME TypeOK, Known, [Next]_vars PROVE TypeOK'
  OBVIOUS
<1> USE CommandsAssumption, BoundsAssumption
<1>1. ASSUME NEW p \in Copies, NEW c \in Commands, Send(p, c) PROVE TypeOK'
  <2>1. [Free EXCEPT !.at = "lookup", !.cmd = c] \in Requests
    BY FreeIsRequest DEF Free, Requests, Places, Values
  <2>2. request' \in [Copies -> Requests]
    BY <1>1, <2>1 DEF TypeOK, Send, Goes
  <2>3. CASE expected[c] = 0
    <3>1. PICK r \in Nat : expected' = [expected EXCEPT ![c] = r]
      BY <1>1, <2>3 DEF Send, Seen, TypeOK
    <3>2. expected' \in [Commands -> Nat]
      BY <3>1 DEF TypeOK
    <3> QED BY <1>1, <2>2, <3>2 DEF TypeOK, Send, rows, history
  <2>4. CASE expected[c] # 0
    BY <1>1, <2>2, <2>4 DEF TypeOK, Send, rows, history
  <2> QED BY <2>3, <2>4
<1>2. ASSUME NEW p \in Copies, Lookup(p) PROVE TypeOK'
  <2>1. \A place \in {"answer", "read"} : [request[p] EXCEPT !.at = place] \in Requests
    BY DEF TypeOK, Requests, Places
  <2>3. request' \in [Copies -> Requests]
    BY <1>2, <2>1, LookupMoves DEF TypeOK
  <2>4. again' \in [Commands -> Nat]
    <3>1. request[p].cmd \in Commands
      BY <1>2 DEF Known, Lookup
    <3> QED BY <1>2, <3>1, ReasonTyped DEF Lookup
  <2> QED BY <1>2, <2>3, <2>4 DEF TypeOK, Lookup, rows, client
<1>3. ASSUME NEW p \in Copies, Read(p) PROVE TypeOK'
  <2>1. \A row \in Contents : [request[p] EXCEPT !.at = "act", !.base = row] \in Requests
    BY DEF TypeOK, Requests, Places
  <2>2. request' \in [Copies -> Requests]
    BY <1>3, <2>1 DEF TypeOK, Read, Goes
  <2> QED BY <1>3, <2>2 DEF TypeOK, Read, rows, client, history
<1>4. ASSUME NEW p \in Copies, UpdatePolicy(p) PROVE TypeOK'
  <2>1. request[p] \in Requests /\ request[p].cmd \in Patches
    BY <1>4 DEF TypeOK, UpdatePolicy, Patches
  <2>2. policy' \in Contents /\ revision' \in Nat \ {0}
    BY <1>4, <2>1, FieldOfPatch DEF TypeOK, UpdatePolicy, Contents, Values, Requests, Commands, Patches
  <2> QED BY <1>4, <2>1, <2>2, TypeTakesEffect DEF TypeOK, UpdatePolicy, client
<1>5. ASSUME NEW p \in Copies, Conflict(p) PROVE TypeOK'
  BY <1>5 DEF TypeOK, Conflict, Goes, Moves, Requests, Places, rows, client, history
<1>6. ASSUME NEW p \in Copies, UpdateChannel(p) PROVE TypeOK'
  <2>1. request[p] \in Requests /\ request[p].cmd \in Patches
    BY <1>6 DEF TypeOK, UpdateChannel, Patches
  <2>2. override' \in Contents
    BY <1>6, <2>1, FieldOfPatch DEF TypeOK, UpdateChannel, Contents, Values, Requests, Commands, Patches
  <2> QED BY <1>6, <2>1, <2>2, TypeTakesEffect DEF TypeOK, UpdateChannel, client
<1>7. ASSUME NEW p \in Copies, SubmitJob(p) PROVE TypeOK'
  BY <1>7 DEF TypeOK, SubmitJob, Goes, Moves, Requests, Places, client, Commands
<1>8. ASSUME NEW p \in Copies, Save(p) PROVE TypeOK'
  <2>1. request[p] \in Requests /\ request[p].cmd \in Commands
    BY <1>8 DEF TypeOK, Known, Save
  <2> QED BY <1>8, <2>1 DEF TypeOK, Save, Goes, Moves, Requests, Places, rows, client, history
<1>9. ASSUME NEW p \in Copies, Answer(p) PROVE TypeOK'
  <2>1. request[p].cmd \in Commands
    BY <1>9 DEF Known, Answer
  <2> QED BY <1>9, <2>1, FreeIsRequest DEF TypeOK, Answer, Goes, rows, history
<1>10. ASSUME NEW p \in Copies, Dies(p) PROVE TypeOK'
  <2>1. request[p].cmd \in Commands
    BY <1>10 DEF Known, Dies
  <2>2. again' \in [Commands -> Nat]
    BY <1>10, <2>1, ReasonTyped DEF Dies
  <2> QED BY <1>10, <2>2, FreeIsRequest DEF TypeOK, Dies, Goes, Faulty, rows, client
<1>13. ASSUME NEW c \in Commands, Forget(c) PROVE TypeOK'
  <2>1. again' \in [Commands -> Nat]
    BY <1>13, ReasonTyped DEF Forget
  <2> QED BY <1>13, <2>1 DEF TypeOK, Forget, rows, client
<1>11. ASSUME JobEnds PROVE TypeOK'
  BY <1>11 DEF TypeOK, JobEnds, client, history
<1>12. ASSUME UNCHANGED vars PROVE TypeOK'
  BY <1>12 DEF TypeOK, vars
<1> QED BY <1>1, <1>2, <1>3, <1>4, <1>5, <1>6, <1>7, <1>8, <1>9, <1>10, <1>11, <1>12, <1>13 DEF Next, Act

\* THEOREM InvariantHolds: who handles what.
LEMMA KnownNext == TypeOK /\ Known /\ Sent /\ [Next]_vars => Known' /\ Sent'
<1> SUFFICES ASSUME TypeOK, Known, Sent, [Next]_vars PROVE Known' /\ Sent'
  OBVIOUS
<1>1. ASSUME NEW p \in Copies, NEW c \in Commands, Send(p, c) PROVE Known' /\ Sent'
  <2>1. request' = [request EXCEPT ![p] = [Free EXCEPT !.at = "lookup", !.cmd = c]]
    BY <1>1 DEF Send, Goes
  <2>2. /\ expected'[c] # 0 /\ expected'[c] <= revision
        /\ \A d \in Commands \ {c} : expected'[d] = expected[d]
    <3>1. CASE expected[c] = 0
      <4>1. PICK r \in 1..revision : expected' = [expected EXCEPT ![c] = r]
        BY <1>1, <3>1 DEF Send, Seen, TypeOK
      <4> QED BY <4>1 DEF TypeOK
    <3>2. CASE expected[c] # 0
      BY <1>1, <3>2 DEF Send, Sent
    <3> QED BY <3>1, <3>2
  <2>3. Known'
    BY <2>1, <2>2 DEF Known, TypeOK, Free
  <2>4. Sent'
    BY <1>1, <2>2 DEF Sent, Send, rows
  <2> QED BY <2>3, <2>4
<1>2. ASSUME NEW p \in Copies, Lookup(p) \/ Read(p) \/ Conflict(p) \/ SubmitJob(p) \/ Save(p)
      PROVE  Known' /\ Sent'
  <2>1. request[p] \in Requests /\ request[p].at # "free"
    BY <1>2 DEF TypeOK, Lookup, Read, Conflict, SubmitJob, Save
  <2>2. UNCHANGED <<expected, revision>>
    BY <1>2 DEF Lookup, Read, Conflict, SubmitJob, Save, client, rows
  <2>3. /\ \A q \in Copies \ {p} : request'[q] = request[q]
        /\ request'[p].cmd = request[p].cmd
    <3>1. CASE Lookup(p)
      <4>1. PICK place \in {"answer", "read"} :
              request' = [request EXCEPT ![p] = [request[p] EXCEPT !.at = place]]
        BY <3>1, LookupMoves
      <4> QED BY <2>1, <4>1 DEF TypeOK, Requests
    <3>2. CASE Read(p)
      BY <3>2, <2>1 DEF TypeOK, Read, Goes, Requests
    <3>3. CASE Conflict(p)
      BY <3>3, <2>1 DEF TypeOK, Conflict, Goes, Moves, Requests
    <3>4. CASE SubmitJob(p)
      BY <3>4, <2>1 DEF TypeOK, SubmitJob, Goes, Moves, Requests
    <3>5. CASE Save(p)
      BY <3>5, <2>1 DEF TypeOK, Save, Goes, Moves, Requests
    <3> QED BY <1>2, <3>1, <3>2, <3>3, <3>4, <3>5
  <2> QED BY <2>1, <2>2, <2>3 DEF Known, Sent
<1>3. ASSUME NEW p \in Copies, UpdatePolicy(p) \/ UpdateChannel(p) PROVE Known' /\ Sent'
  <2>1. /\ request[p].at # "free" /\ UNCHANGED expected
        /\ revision' \in {revision, revision + 1}
    BY <1>3 DEF UpdatePolicy, UpdateChannel, client
  <2>2. \A q \in Copies : request'[q].cmd = request[q].cmd
                         /\ (request'[q].at # "free" => request[q].at # "free")
    <3>1. PICK kind : TakesEffect(p, kind)
      BY <1>3 DEF UpdatePolicy, UpdateChannel
    <3>2. \A q \in Copies : request[q] \in Requests
      BY DEF TypeOK
    <3> QED BY <2>1, <3>1, <3>2 DEF TakesEffect, Requests
  <2> QED BY <2>1, <2>2 DEF Known, Sent, TypeOK
<1>4. ASSUME NEW p \in Copies, Answer(p) \/ Dies(p) PROVE Known' /\ Sent'
  BY <1>4 DEF Known, Sent, TypeOK, Answer, Dies, Goes, Free, rows, client
<1>5. ASSUME JobEnds \/ UNCHANGED vars \/ \E c \in Commands : Forget(c) PROVE Known' /\ Sent'
  BY <1>5 DEF Known, Sent, JobEnds, Forget, rows, client, vars
<1> QED BY <1>1, <1>2, <1>3, <1>4, <1>5 DEF Next, Act

\* A step of a request that neither reads nor writes the policy or an override.
LEMMA QuietStep ==
  ASSUME TypeOK, NEW p \in Copies,
         Lookup(p) \/ Conflict(p) \/ SubmitJob(p) \/ Save(p) \/ Answer(p) \/ Dies(p)
  PROVE  /\ UNCHANGED <<revision, policy, override, expected, lastSet, overlapped>>
         /\ request'[p].at # "act" /\ \A q \in Copies \ {p} : request'[q] = request[q]
         /\ \A c \in Patches : times'[c] = times[c]
<1>1. request[p] \in Requests
  BY DEF TypeOK
<1>2. CASE Lookup(p)
  <2>1. PICK place \in {"answer", "read"} :
          request' = [request EXCEPT ![p] = [request[p] EXCEPT !.at = place]]
    BY <1>2, LookupMoves
  <2> QED BY <1>1, <1>2, <2>1 DEF TypeOK, Requests, Lookup, rows, client
<1>3. CASE Conflict(p)
  BY <1>1, <1>3 DEF TypeOK, Requests, Conflict, Moves, Goes, rows, client, history
<1>4. CASE SubmitJob(p)
  BY <1>1, <1>4, CommandsAssumption
     DEF TypeOK, Requests, SubmitJob, Moves, Goes, client, Commands, Patches
<1>5. CASE Save(p)
  BY <1>1, <1>5 DEF TypeOK, Requests, Save, Moves, Goes, rows, client, history
<1>6. CASE Answer(p) \/ Dies(p)
  BY <1>6 DEF TypeOK, Answer, Dies, Goes, Free, rows, client, history
<1> QED BY <1>2, <1>3, <1>4, <1>5, <1>6

\* What a request's copy of a row is once another's patch has taken effect.
LEMMA EffectStep ==
  ASSUME TypeOK, NEW p \in Copies, NEW kind \in {"policy", "channel"}, TakesEffect(p, kind),
         request[p].cmd \in Patches
  PROVE  /\ request'[p].at # "act"
         /\ \A q \in Copies \ {p} :
              /\ request'[q].at = request[q].at /\ request'[q].cmd = request[q].cmd
              /\ request'[q].base = request[q].base
              /\ request[q].since \subseteq request'[q].since
              /\ request[q].at = "act" /\ kind = "channel" /\ request[q].cmd \in ChannelCommands =>
                   request[p].cmd \in request'[q].since
         /\ \A other \in {"policy", "channel"} \ {kind} : lastSet'[other] = lastSet[other]
         /\ lastSet'[kind] = [lastSet[kind] EXCEPT ![FieldOf[request[p].cmd]] = request[p].cmd]
         /\ times'[request[p].cmd] = times[request[p].cmd] + 1
         /\ \A c \in Commands \ {request[p].cmd} : times'[c] = times[c]
         /\ overlapped' = overlapped \union request[p].since
<1>1. \A q \in Copies : request[q] \in Requests
  BY DEF TypeOK
<1>2. request'[p].at # "act"
  BY <1>1 DEF TakesEffect, Requests
<1>3. ASSUME NEW q \in Copies \ {p}
      PROVE  /\ request'[q].at = request[q].at /\ request'[q].cmd = request[q].cmd
             /\ request'[q].base = request[q].base
             /\ request[q].since \subseteq request'[q].since
             /\ request[q].at = "act" /\ kind = "channel" /\ request[q].cmd \in ChannelCommands =>
                  request[p].cmd \in request'[q].since
  <2>1. \/ request'[q] = request[q]
        \/ request'[q] = [request[q] EXCEPT !.since = @ \union {request[p].cmd}]
    BY DEF TakesEffect
  <2>2. request[q].at = "act" /\ kind = "channel" /\ request[q].cmd \in ChannelCommands =>
          request'[q] = [request[q] EXCEPT !.since = @ \union {request[p].cmd}]
    BY DEF TakesEffect
  <2> QED BY <1>1, <2>1, <2>2 DEF Requests
<1>4. request[p].cmd \in Commands
  BY DEF Commands, Patches
<1> QED BY <1>2, <1>3, <1>4 DEF TakesEffect, TypeOK

\* THEOREM InvariantHolds: the policy is what the last commands made of it.
Policy == FreshBase /\ Once /\ policy = lastSet["policy"]

LEMMA PolicyNext == TypeOK /\ Known /\ Sent /\ Policy /\ [Next]_vars => Policy'
<1> SUFFICES ASSUME TypeOK, Known, Sent, Policy, [Next]_vars PROVE Policy'
  OBVIOUS
<1> USE DEF Policy
<1>0. /\ \A c \in PolicyCommands : c \in Commands /\ c \in Patches /\ c \notin ChannelCommands
      /\ \A c \in Commands : expected[c] \in Nat /\ revision \in Nat
      /\ \A q \in Copies : request[q] \in Requests
  BY CommandsAssumption DEF Commands, Patches, TypeOK
<1>1. ASSUME NEW p \in Copies, NEW c \in Commands, Send(p, c) PROVE Policy'
  <2>1. /\ request'[p].at # "act" /\ \A q \in Copies \ {p} : request'[q] = request[q]
        /\ UNCHANGED <<revision, policy, lastSet, times>>
    BY <1>1 DEF Send, Goes, Free, TypeOK, rows, history
  <2>2. \A d \in Commands : expected[d] # 0 => expected'[d] = expected[d]
    BY <1>1 DEF Send, TypeOK
  <2>3. FreshBase'
    BY <2>1, <2>2, <1>0 DEF FreshBase, Known
  <2> QED BY <2>1, <2>2, <2>3, <1>0 DEF Once
<1>2. ASSUME NEW p \in Copies,
             Lookup(p) \/ Conflict(p) \/ SubmitJob(p) \/ Save(p) \/ Answer(p) \/ Dies(p)
      PROVE  Policy'
  <2>1. FreshBase'
    BY <1>2, QuietStep DEF FreshBase
  <2>2. Once'
    BY <1>2, QuietStep, <1>0 DEF Once
  <2> QED BY <1>2, <2>1, <2>2, QuietStep
<1>3. ASSUME NEW p \in Copies, Read(p) PROVE Policy'
  <2>1. /\ UNCHANGED <<revision, policy, expected, lastSet, times>>
        /\ \A q \in Copies \ {p} : request'[q] = request[q]
        /\ request'[p].cmd = request[p].cmd
        /\ request[p].cmd \in PolicyCommands => request'[p].base = policy
    BY <1>3, <1>0 DEF TypeOK, Read, Goes, Requests, rows, client, history
  <2> QED BY <2>1 DEF FreshBase, Once
<1>4. ASSUME NEW p \in Copies, UpdatePolicy(p) PROVE Policy'
  <2> DEFINE c == request[p].cmd
  <2>1. c \in PolicyCommands /\ expected[c] = revision /\ request[p].at = "act"
    BY <1>4 DEF UpdatePolicy
  <2>2. TakesEffect(p, "policy") /\ revision' = revision + 1 /\ UNCHANGED expected
        /\ policy' = [request[p].base EXCEPT ![FieldOf[c]] = c]
    BY <1>4 DEF UpdatePolicy, client
  <2>3. \A d \in Commands : expected'[d] < revision'
    BY <2>2, <1>0 DEF Sent
  <2>4. FreshBase'
    <3>1. \A q \in Copies : request'[q].at = "act" => request'[q].cmd \in Commands
      BY <2>1, <2>2, <1>0, EffectStep DEF Known
    <3> QED BY <2>3, <3>1, <2>2, <1>0 DEF FreshBase
  <2>5. Once'
    <3>1. times'[c] = times[c] + 1
      BY <2>1, <2>2, <1>0, EffectStep
    <3>2. times[c] = 0 /\ times'[c] = 1
      BY <2>1, <3>1 DEF Once, TypeOK
    <3>3. expected'[c] # 0
      BY <2>1, <2>2 DEF TypeOK
    <3>4. \A d \in PolicyCommands \ {c} : times'[d] = times[d]
      BY <2>1, <2>2, <1>0, EffectStep
    <3> QED BY <2>2, <2>3, <3>2, <3>3, <3>4, <1>0 DEF Once
  <2>6. policy' = lastSet'["policy"]
    BY <2>1, <2>2, <1>0, EffectStep DEF FreshBase
  <2> QED BY <2>4, <2>5, <2>6
<1>5. ASSUME NEW p \in Copies, UpdateChannel(p) PROVE Policy'
  <2>1. /\ request[p].cmd \in ChannelCommands /\ TakesEffect(p, "channel")
        /\ UNCHANGED <<revision, policy, expected>>
    BY <1>5 DEF UpdateChannel, client
  <2>2. request[p].cmd \in Patches
    BY <2>1 DEF Patches
  <2>3. FreshBase'
    <3>1. /\ request'[p].at # "act"
          /\ \A q \in Copies \ {p} :
               /\ request'[q].at = request[q].at /\ request'[q].cmd = request[q].cmd
               /\ request'[q].base = request[q].base
      BY <2>1, <2>2, EffectStep
    <3> QED BY <2>1, <3>1 DEF FreshBase
  <2>4. Once'
    <3>1. \A c \in Commands \ {request[p].cmd} : times'[c] = times[c]
      BY <2>1, <2>2, EffectStep
    <3>2. \A c \in PolicyCommands : times'[c] = times[c]
      BY <2>1, <3>1, <1>0
    <3> QED BY <2>1, <3>2 DEF Once
  <2>5. lastSet'["policy"] = lastSet["policy"]
    BY <2>1, <2>2, EffectStep
  <2> QED BY <2>1, <2>3, <2>4, <2>5
<1>6. ASSUME JobEnds \/ UNCHANGED vars \/ \E c \in Commands : Forget(c) PROVE Policy'
  BY <1>6 DEF FreshBase, Once, JobEnds, Forget, rows, client, history, vars
<1> QED BY <1>1, <1>2, <1>3, <1>4, <1>5, <1>6 DEF Next, Act

\* THEOREM InvariantHolds: a patch is lost to one that overlapped it only.
LEMMA PatchNext == TypeOK /\ PatchBase /\ PatchKept /\ [Next]_vars => PatchBase' /\ PatchKept'
<1> SUFFICES ASSUME TypeOK, PatchBase, PatchKept, [Next]_vars PROVE PatchBase' /\ PatchKept'
  OBVIOUS
<1>0. \A q \in Copies : request[q] \in Requests
  BY DEF TypeOK
<1>1. ASSUME NEW p \in Copies,
             \/ \E c \in Commands : Send(p, c)
             \/ Lookup(p) \/ Conflict(p) \/ SubmitJob(p) \/ Save(p) \/ Answer(p) \/ Dies(p)
      PROVE  PatchBase' /\ PatchKept'
  <2>1. /\ UNCHANGED <<override, lastSet, overlapped>>
        /\ request'[p].at # "act" /\ \A q \in Copies \ {p} : request'[q] = request[q]
    <3>1. CASE \E c \in Commands : Send(p, c)
      BY <3>1 DEF Send, Goes, Free, TypeOK, rows, history
    <3> QED BY <1>1, <3>1, QuietStep
  <2> QED BY <2>1 DEF PatchBase, PatchKept, Overlaps
<1>2. ASSUME NEW p \in Copies, Read(p) PROVE PatchBase' /\ PatchKept'
  <2>1. /\ UNCHANGED <<override, lastSet, overlapped>>
        /\ \A q \in Copies \ {p} : request'[q] = request[q]
        /\ request'[p].cmd = request[p].cmd
        /\ request[p].cmd \notin PolicyCommands => request'[p].base = override
    BY <1>2, <1>0 DEF TypeOK, Read, Goes, Requests, rows, client, history
  <2>2. \A c \in ChannelCommands : c \notin PolicyCommands
    BY CommandsAssumption
  <2> QED BY <2>1, <2>2 DEF PatchBase, PatchKept, Overlaps
<1>3. ASSUME NEW p \in Copies, UpdatePolicy(p) PROVE PatchBase' /\ PatchKept'
  <2>1. /\ request[p].cmd \in Patches /\ TakesEffect(p, "policy") /\ UNCHANGED override
    BY <1>3 DEF UpdatePolicy, Patches
  <2>2. lastSet'["channel"] = lastSet["channel"] /\ overlapped \subseteq overlapped'
    BY <2>1, EffectStep
  <2>3. PatchBase'
    <3>1. /\ request'[p].at # "act"
          /\ \A q \in Copies \ {p} :
               /\ request'[q].at = request[q].at /\ request'[q].cmd = request[q].cmd
               /\ request'[q].base = request[q].base
               /\ request[q].since \subseteq request'[q].since
      BY <2>1, EffectStep
    <3> QED BY <2>2, <3>1 DEF PatchBase, Overlaps
  <2> QED BY <2>1, <2>2, <2>3 DEF PatchKept
<1>4. ASSUME NEW p \in Copies, UpdateChannel(p) PROVE PatchBase' /\ PatchKept'
  <2> DEFINE c == request[p].cmd
  <2>1. /\ c \in ChannelCommands /\ c \in Patches /\ request[p].at = "act"
        /\ TakesEffect(p, "channel") /\ override' = [request[p].base EXCEPT ![FieldOf[c]] = c]
    BY <1>4 DEF UpdateChannel, Patches
  <2>2. FieldOf[c] \in Fields /\ request[p].base \in Contents /\ lastSet["channel"] \in Contents
    BY <2>1, <1>0, FieldOfPatch DEF Requests, TypeOK
  <2>3. /\ lastSet'["channel"][FieldOf[c]] = c /\ override'[FieldOf[c]] = c
        /\ \A f \in Fields \ {FieldOf[c]} : /\ lastSet'["channel"][f] = lastSet["channel"][f]
                                            /\ override'[f] = request[p].base[f]
    BY <2>1, <2>2, EffectStep DEF Contents
  <2>4. overlapped' = overlapped \union request[p].since
    BY <2>1, EffectStep
  <2>5. PatchKept'
    BY <2>1, <2>3, <2>4 DEF PatchKept, PatchBase, Overlaps
  <2>6. ASSUME NEW q \in Copies, NEW f \in Fields,
               request'[q].at = "act", request'[q].cmd \in ChannelCommands
        PROVE  Overlaps(f, request[q].base, overlapped \union request[q].since)'
    <3>1. q # p
      BY <2>1, <2>6, EffectStep
    <3>2. /\ request'[q].at = request[q].at /\ request'[q].cmd = request[q].cmd
          /\ request'[q].base = request[q].base /\ request[q].since \subseteq request'[q].since
          /\ request[q].at = "act" /\ request[q].cmd \in ChannelCommands => c \in request'[q].since
      BY <2>1, <3>1, EffectStep
    <3>3. /\ request[q].at = "act" /\ request[q].cmd \in ChannelCommands
          /\ c \in request'[q].since
      BY <2>6, <3>2
    <3>4. Overlaps(f, request[q].base, overlapped \union request[q].since)
      BY <3>3 DEF PatchBase
    <3> QED BY <2>3, <2>4, <3>3, <3>4, <3>2 DEF Overlaps
  <2> QED BY <2>5, <2>6 DEF PatchBase
<1>5. ASSUME JobEnds \/ UNCHANGED vars \/ \E c \in Commands : Forget(c)
      PROVE  PatchBase' /\ PatchKept'
  BY <1>5 DEF PatchBase, PatchKept, Overlaps, JobEnds, Forget, rows, history, vars
<1> QED BY <1>1, <1>2, <1>3, <1>4, <1>5 DEF Next, Act

\* THEOREM InvariantHolds: nothing takes effect again without a cause.

\* What a request's step changes of the copies that are counted.
LEMMA CopiesCounted ==
  ASSUME TypeOK, NEW c \in Commands, NEW p \in Copies,
         \A q \in Copies \ {p} : request'[q].at = request[q].at /\ request'[q].cmd = request[q].cmd
  PROVE  /\ Underway(c)' \ {p} = Underway(c) \ {p}
         /\ Cardinality(Doing(c)) \in Nat
         /\ p \in Doing(c) /\ p \in Doing(c)' => Cardinality(Doing(c)') = Cardinality(Doing(c))
         /\ p \notin Doing(c) /\ p \notin Doing(c)' => Cardinality(Doing(c)') = Cardinality(Doing(c))
         /\ p \notin Doing(c) /\ p \in Doing(c)' => Cardinality(Doing(c)') = Cardinality(Doing(c)) + 1
         /\ p \in Doing(c) /\ p \notin Doing(c)' => Cardinality(Doing(c)') = Cardinality(Doing(c)) - 1
<1>1. IsFiniteSet(Doing(c)) /\ IsFiniteSet(Doing(c)')
  BY BoundsAssumption, FS_Subset DEF Doing
<1>2. Doing(c)' \ {p} = Doing(c) \ {p} /\ Underway(c)' \ {p} = Underway(c) \ {p}
  BY DEF Doing, Underway
<1>3. CASE p \in Doing(c) <=> p \in Doing(c)'
  <2>1. Doing(c)' = Doing(c)
    BY <1>2, <1>3
  <2> QED BY <1>1, <1>2, <1>3, <2>1, FS_CardinalityType
<1>4. CASE p \notin Doing(c) /\ p \in Doing(c)'
  <2>1. Doing(c)' = Doing(c) \union {p}
    BY <1>2, <1>4
  <2> QED BY <1>1, <1>2, <1>4, <2>1, FS_CardinalityType, FS_AddElement
<1>5. CASE p \in Doing(c) /\ p \notin Doing(c)'
  <2>1. Doing(c)' = Doing(c) \ {p}
    BY <1>2, <1>5
  <2> QED BY <1>1, <1>2, <1>5, <2>1, FS_CardinalityType, FS_RemoveElement
<1> QED BY <1>3, <1>4, <1>5

\* What a step does to a command that is not the one it is about.
LEMMA OthersCounted ==
  ASSUME TypeOK, Accounted, NEW c \in Commands \ Keyless, NEW p \in Copies,
         \A q \in Copies \ {p} : request'[q].at = request[q].at /\ request'[q].cmd = request[q].cmd,
         p \notin Underway(c), p \notin Underway(c)',
         times'[c] = times[c], again'[c] = again[c], c \in saved' <=> c \in saved
  PROVE  times'[c] + Cardinality(Doing(c)') + Spare(c)' <= 1 + again'[c]
<1>1. p \notin Doing(c) /\ p \notin Doing(c)'
  BY DEF Doing, Underway
<1>2. Underway(c)' = Underway(c) /\ Cardinality(Doing(c)') = Cardinality(Doing(c))
  <2>1. \A q \in Copies : (q \in Underway(c) <=> q \in Underway(c)') /\ (q \in Doing(c) <=> q \in Doing(c)')
    BY <1>1 DEF Doing, Underway
  <2>2. Doing(c) \subseteq Copies /\ Doing(c)' \subseteq Copies
        /\ Underway(c) \subseteq Copies /\ Underway(c)' \subseteq Copies
    BY DEF Doing, Underway
  <2>3. Underway(c)' = Underway(c) /\ Doing(c)' = Doing(c)
    BY <2>1, <2>2
  <2> QED BY <2>3
<1>3. Spare(c)' = Spare(c)
  BY <1>2 DEF Spare
<1> QED BY <1>2, <1>3 DEF Accounted

LEMMA AccountedNext ==
  TypeOK /\ Known /\ Accounted /\ [Next]_vars => Accounted'
<1> SUFFICES ASSUME TypeOK, Known, Accounted, [Next]_vars, NEW c \in Commands \ Keyless
             PROVE  times'[c] + Cardinality(Doing(c)') + Spare(c)' <= 1 + again'[c]
  BY DEF Accounted
<1> DEFINE Holds == times'[c] + Cardinality(Doing(c)') + Spare(c)' <= 1 + again'[c]
<1>0. /\ \A q \in Copies : request[q] \in Requests
      /\ times[c] \in Nat /\ again[c] \in Nat /\ Spare(c) \in {0, 1} /\ Spare(c)' \in {0, 1}
      /\ times[c] + Cardinality(Doing(c)) + Spare(c) <= 1 + again[c]
  BY DEF TypeOK, Accounted, Spare
<1>1. ASSUME NEW p \in Copies, NEW d \in Commands, Send(p, d) PROVE Holds
  <2>1. request'[p].at = "lookup" /\ \A q \in Copies \ {p} : request'[q] = request[q]
    BY <1>1 DEF Send, Goes, Free, TypeOK
  <2>2. request[p].at = "free" /\ UNCHANGED <<saved, times, again>>
    BY <1>1 DEF Send, Free, history
  <2> QED BY <2>1, <2>2, OthersCounted DEF Underway
<1>2. ASSUME NEW p \in Copies, Lookup(p) PROVE Holds
  <2>1. PICK place \in {"answer", "read"} : request' = [request EXCEPT ![p].at = place]
    BY <1>2, LookupMoves
  <2>2. /\ request'[p].cmd = request[p].cmd /\ request'[p].at = place
        /\ \A q \in Copies \ {p} : request'[q] = request[q]
    BY <1>0, <2>1 DEF TypeOK, Requests
  <2>3. /\ request[p].at = "lookup" /\ UNCHANGED <<saved, times>>
        /\ place = IF request[p].cmd \in saved THEN "answer" ELSE "read"
        /\ Reason(request[p].cmd, request[p].cmd \notin saved /\ Underway(request[p].cmd) # {})
    BY <1>0, <1>2, <2>2 DEF Lookup, Moves, Goes, TypeOK, Requests
  <2>4. request[p].cmd \in Commands
    BY <2>3 DEF Known
  <2>5. CASE c # request[p].cmd \/ c \in saved
    <3>1. again'[c] = again[c]
      BY <2>3, <2>4, <2>5 DEF Reason, TypeOK
    <3> QED BY <2>2, <2>3, <2>5, <3>1, OthersCounted DEF Underway
  <2>6. CASE c = request[p].cmd /\ c \notin saved
    <3>1. p \notin Underway(c) /\ p \notin Doing(c) /\ p \in Doing(c)' /\ p \in Underway(c)'
      BY <2>2, <2>3, <2>6 DEF Underway, Doing
    <3>2. Cardinality(Doing(c)') = Cardinality(Doing(c)) + 1 /\ Cardinality(Doing(c)) \in Nat
      BY <2>2, <3>1, CopiesCounted
    <3>3. Spare(c)' = 0
      BY <3>1 DEF Spare
    <3>4. CASE Underway(c) = {}
      <4>1. Spare(c) = 1 /\ again' = again
        BY <2>3, <2>6, <3>4 DEF Spare, Reason
      <4> QED BY <1>0, <2>3, <3>2, <3>3, <4>1
    <3>5. CASE Underway(c) # {}
      <4>1. Spare(c) = 0 /\ again'[c] = again[c] + 1
        BY <2>3, <2>6, <3>5 DEF Spare, Reason, TypeOK
      <4> QED BY <1>0, <2>3, <3>2, <3>3, <4>1
    <3> QED BY <3>4, <3>5
  <2> QED BY <2>5, <2>6
<1>3. ASSUME NEW p \in Copies, Read(p) PROVE Holds
  <2>1. /\ request[p].at = "read" /\ request'[p].at = "act" /\ request'[p].cmd = request[p].cmd
        /\ \A q \in Copies \ {p} : request'[q] = request[q]
        /\ UNCHANGED <<saved, times, again>>
    BY <1>0, <1>3 DEF Read, Goes, TypeOK, Requests, history
  <2>2. Cardinality(Doing(c)') = Cardinality(Doing(c)) /\ Underway(c)' = Underway(c)
    <3>1. Doing(c)' = Doing(c) /\ Underway(c)' = Underway(c)
      BY <2>1 DEF Doing, Underway
    <3> QED BY <3>1
  <2> QED BY <1>0, <2>1, <2>2 DEF Spare
\* A step that takes effect, and one that is refused.
<1>4. ASSUME NEW p \in Copies, request[p].at = "act", request'[p].at = "save",
             request'[p].cmd = request[p].cmd, UNCHANGED <<saved, again>>,
             \A q \in Copies \ {p} : /\ request'[q].at = request[q].at
                                     /\ request'[q].cmd = request[q].cmd,
             times'[request[p].cmd] = times[request[p].cmd] + 1,
             \A d \in Commands \ {request[p].cmd} : times'[d] = times[d]
      PROVE  Holds
  <2>1. CASE c # request[p].cmd
    BY <1>4, <2>1, OthersCounted DEF Underway
  <2>2. CASE c = request[p].cmd
    <3>1. p \in Doing(c) /\ p \notin Doing(c)' /\ p \in Underway(c) /\ p \in Underway(c)'
      BY <1>4, <2>2 DEF Doing, Underway
    <3>2. Cardinality(Doing(c)') = Cardinality(Doing(c)) - 1 /\ Cardinality(Doing(c)) \in Nat
      BY <1>4, <3>1, CopiesCounted
    <3>3. Spare(c)' = 0 /\ Spare(c) = 0
      BY <3>1 DEF Spare
    <3> QED BY <1>0, <1>4, <2>2, <3>2, <3>3
  <2> QED BY <2>1, <2>2
<1>5. ASSUME NEW p \in Copies, request[p].at \in {"read", "act"},
             request'[p].at \in {"free", "answer"}, UNCHANGED <<saved, times, again>>,
             \A q \in Copies \ {p} : request'[q] = request[q]
      PROVE  Holds
  <2>1. CASE c # request[p].cmd
    BY <1>5, <2>1, OthersCounted DEF Underway
  <2>2. CASE c = request[p].cmd
    <3>1. p \in Doing(c) /\ p \notin Doing(c)' /\ p \in Underway(c)
      BY <1>5, <2>2 DEF Doing, Underway
    <3>2. Cardinality(Doing(c)') = Cardinality(Doing(c)) - 1 /\ Cardinality(Doing(c)) \in Nat
      BY <1>5, <3>1, CopiesCounted
    <3>3. Spare(c) = 0
      BY <3>1 DEF Spare
    <3> QED BY <1>0, <1>5, <3>2, <3>3
  <2> QED BY <2>1, <2>2
<1>6. ASSUME NEW p \in Copies, UpdatePolicy(p) \/ UpdateChannel(p) PROVE Holds
  <2>1. PICK kind \in {"policy", "channel"} : TakesEffect(p, kind)
    BY <1>6 DEF UpdatePolicy, UpdateChannel
  <2>2. request[p].cmd \in Patches /\ request[p].at = "act" /\ UNCHANGED <<saved, again>>
    BY <1>6 DEF UpdatePolicy, UpdateChannel, Patches
  <2>3. request'[p].at = "save" /\ request'[p].cmd = request[p].cmd
    BY <1>0, <2>1 DEF TakesEffect, Requests
  <2> QED BY <1>4, <2>1, <2>2, <2>3, EffectStep
<1>7. ASSUME NEW p \in Copies, SubmitJob(p) PROVE Holds
  <2>1. /\ request[p].at = "act" /\ request[p].cmd \in Commands /\ UNCHANGED <<saved, again>>
    BY <1>7 DEF SubmitJob, Commands
  <2>2. CASE active = None
    <3>1. /\ request'[p].at = "save" /\ request'[p].cmd = request[p].cmd
          /\ \A q \in Copies \ {p} : request'[q] = request[q]
          /\ times' = [times EXCEPT ![request[p].cmd] = @ + 1]
      BY <1>0, <1>7, <2>2 DEF SubmitJob, Moves, Goes, TypeOK, Requests
    <3>2. /\ times'[request[p].cmd] = times[request[p].cmd] + 1
          /\ \A d \in Commands \ {request[p].cmd} : times'[d] = times[d]
      BY <2>1, <3>1 DEF TypeOK
    <3> QED BY <1>4, <2>1, <3>1, <3>2
  <2>3. CASE active # None
    <3>1. /\ request'[p].at = "answer" /\ times' = times
          /\ \A q \in Copies \ {p} : request'[q] = request[q]
      BY <1>0, <1>7, <2>3 DEF SubmitJob, Moves, Goes, TypeOK, Requests
    <3> QED BY <1>5, <2>1, <3>1
  <2> QED BY <2>2, <2>3
<1>8. ASSUME NEW p \in Copies, Conflict(p) PROVE Holds
  <2>1. /\ request[p].at = "act" /\ request'[p].at = "answer" /\ UNCHANGED <<saved, times, again>>
        /\ \A q \in Copies \ {p} : request'[q] = request[q]
    BY <1>0, <1>8 DEF Conflict, Moves, Goes, TypeOK, Requests, history
  <2> QED BY <1>5, <2>1
<1>9. ASSUME NEW p \in Copies, Save(p) PROVE Holds
  <2>1. /\ request[p].at = "save" /\ request'[p].at = "answer" /\ UNCHANGED <<times, again>>
        /\ \A q \in Copies \ {p} : request'[q] = request[q]
        /\ saved' = IF request[p].cmd \in Keyless THEN saved ELSE saved \union {request[p].cmd}
    BY <1>0, <1>9 DEF Save, Moves, Goes, TypeOK, Requests, history
  <2>2. CASE c # request[p].cmd
    BY <2>1, <2>2, OthersCounted DEF Underway
  <2>3. CASE c = request[p].cmd
    <3>1. p \notin Doing(c) /\ p \notin Doing(c)'
      BY <2>1 DEF Doing
    <3>2. Cardinality(Doing(c)') = Cardinality(Doing(c)) /\ Cardinality(Doing(c)) \in Nat
      BY <2>1, <3>1, CopiesCounted
    <3>3. Spare(c)' = 0
      BY <2>1, <2>3 DEF Spare
    <3> QED BY <1>0, <2>1, <3>2, <3>3
  <2> QED BY <2>2, <2>3
<1>10. ASSUME NEW p \in Copies, Answer(p) PROVE Holds
  <2>1. /\ request[p].at = "answer" /\ request'[p].at = "free" /\ UNCHANGED <<saved, times, again>>
        /\ \A q \in Copies \ {p} : request'[q] = request[q]
    BY <1>10 DEF Answer, Goes, Free, TypeOK, history
  <2> QED BY <2>1, OthersCounted DEF Underway
<1>11. ASSUME NEW p \in Copies, Dies(p) PROVE Holds
  <2> DEFINE d == request[p].cmd
  <2>1. /\ request[p].at # "free" /\ request'[p].at = "free" /\ UNCHANGED <<saved, times>>
        /\ \A q \in Copies \ {p} : request'[q] = request[q]
        /\ Reason(d, request[p].at = "save" /\ d \notin saved /\ Underway(d) = {p})
    BY <1>11 DEF Dies, Goes, Free, TypeOK
  <2>2. d \in Commands
    BY <2>1 DEF Known
  <2>3. CASE request[p].at \in {"read", "act"}
    <3>1. again' = again
      BY <2>1, <2>3 DEF Reason
    <3> QED BY <1>5, <2>1, <2>3, <3>1
  <2>4. CASE request[p].at \notin {"read", "act", "save"} \/ c # d
    <3>1. again'[c] = again[c]
      BY <2>1, <2>2, <2>4 DEF Reason, TypeOK
    <3> QED BY <2>1, <2>4, <3>1, OthersCounted DEF Underway
  <2>5. CASE request[p].at = "save" /\ c = d
    <3>1. p \notin Doing(c) /\ p \notin Doing(c)' /\ p \in Underway(c) /\ p \notin Underway(c)'
      BY <2>1, <2>5 DEF Doing, Underway
    <3>2. /\ Cardinality(Doing(c)') = Cardinality(Doing(c)) /\ Cardinality(Doing(c)) \in Nat
          /\ Underway(c)' = Underway(c) \ {p}
      BY <2>1, <3>1, CopiesCounted
    <3>3. Spare(c) = 0
      BY <3>1 DEF Spare
    <3>4. CASE c \notin saved /\ Underway(c) = {p}
      <4>1. again'[c] = again[c] + 1
        BY <2>1, <2>5, <3>4 DEF Reason, TypeOK
      <4> QED BY <1>0, <2>1, <3>2, <3>3, <4>1
    <3>5. CASE ~(c \notin saved /\ Underway(c) = {p})
      <4>1. again' = again
        BY <2>1, <2>5, <3>5 DEF Reason
      <4>2. Spare(c)' = 0
        BY <2>1, <3>1, <3>2, <3>5 DEF Spare
      <4> QED BY <1>0, <2>1, <3>2, <3>3, <4>1, <4>2
    <3> QED BY <3>4, <3>5
  <2> QED BY <2>3, <2>4, <2>5
<1>12. ASSUME NEW d \in Commands, Forget(d) PROVE Holds
  <2>1. /\ d \in saved /\ saved' = saved \ {d} /\ UNCHANGED <<request, times>>
        /\ Reason(d, Underway(d) = {})
    BY <1>12 DEF Forget
  <2>2. Cardinality(Doing(c)') = Cardinality(Doing(c)) /\ Underway(c)' = Underway(c)
    BY <2>1 DEF Doing, Underway
  <2>3. Cardinality(Doing(c)) \in Nat
    BY BoundsAssumption, FS_Subset, FS_CardinalityType DEF Doing
  <2>4. CASE c # d
    <3>1. again'[c] = again[c] /\ Spare(c)' = Spare(c)
      BY <2>1, <2>2, <2>4 DEF Reason, TypeOK, Spare
    <3> QED BY <1>0, <2>1, <2>2, <3>1
  <2>5. CASE c = d /\ Underway(c) = {}
    <3>1. again'[c] = again[c] + 1 /\ Spare(c) = 0
      BY <2>1, <2>5 DEF Reason, TypeOK, Spare
    <3> QED BY <1>0, <2>1, <2>2, <2>3, <3>1
  <2>6. CASE c = d /\ Underway(c) # {}
    <3>1. again' = again /\ Spare(c) = 0 /\ Spare(c)' = 0
      BY <2>1, <2>2, <2>6 DEF Reason, Spare
    <3> QED BY <1>0, <2>1, <2>2, <3>1
  <2> QED BY <2>4, <2>5, <2>6
<1>13. ASSUME JobEnds \/ UNCHANGED vars PROVE Holds
  <2>1. UNCHANGED <<saved, request, times, again>>
    BY <1>13 DEF JobEnds, history, vars
  <2>2. Cardinality(Doing(c)') = Cardinality(Doing(c)) /\ Spare(c)' = Spare(c)
    BY <2>1 DEF Doing, Underway, Spare
  <2> QED BY <1>0, <2>1, <2>2
<1> HIDE DEF Holds
<1> QED BY <1>1, <1>2, <1>3, <1>6, <1>7, <1>8, <1>9, <1>10, <1>11, <1>12, <1>13 DEF Next, Act, Holds

\* The invariant holds for every set of commands, copies and fields.
THEOREM InvariantHolds == Spec => []Inv
<1>1. Init => Inv
  <2>1. Init => TypeOK
    BY TypeInit
  <2>2. Init => Known /\ Sent
    BY DEF Init, Free, Known, Sent
  <2>5. Init => Accounted
    <3> SUFFICES ASSUME Init, NEW c \in Commands
                 PROVE  times[c] + Cardinality(Doing(c)) + Spare(c) <= 1 + again[c]
      BY DEF Accounted
    <3>1. Doing(c) = {} /\ Underway(c) = {}
      BY DEF Init, Free, Doing, Underway
    <3> QED BY <3>1, FS_EmptySet DEF Init, Spare
  <2>3. Init => FreshBase /\ PatchBase /\ PatchKept
    BY DEF Init, Free, FreshBase, PatchBase, PatchKept
  <2>4. Init => Once /\ policy = lastSet["policy"]
    BY DEF Init, Once, Commands
  <2> QED BY <2>1, <2>2, <2>3, <2>4, <2>5 DEF Inv
<1>2. Inv /\ [Next]_vars => Inv'
  BY TypeNext, KnownNext, PolicyNext, PatchNext, AccountedNext DEF Inv, Policy
<1> QED BY <1>1, <1>2, PTL DEF Spec

\* The variables of GuardianCommands have their types: no result is saved for a request without
\* a key, and no request handles anything but commands.
THEOREM TypeCorrect == Spec => []TypeOK
BY InvariantHolds, PTL DEF Inv

\* No update of the policy is lost or made twice, whatever commands, copies and faults there are
\* (update_policy's compare-and-set on the revision).
THEOREM UpdatesKept == Spec => []NoLostUpdate
<1>1. Inv => NoLostUpdate
  BY DEF Inv, NoLostUpdate, Once, TypeOK, Commands
<1> QED BY <1>1, InvariantHolds, PTL

\* Only patches that overlap can undo each other in a channel's override (update_channel).
THEOREM PatchKeptCorrect == Spec => []PatchKept
BY InvariantHolds, PTL DEF Inv

\* However many copies a client sends, a command takes effect again only for one of the causes,
\* and once for each (get_idempotent_result before the action, save_idempotent_result after it).
THEOREM RepeatedForCauseCorrect == Spec => []RepeatedForCause
<1>1. Inv => RepeatedForCause
  <2> SUFFICES ASSUME Inv, NEW c \in Commands \ Keyless PROVE times[c] <= 1 + again[c]
    BY DEF RepeatedForCause
  <2>1. /\ times[c] \in Nat /\ again[c] \in Nat /\ Spare(c) \in {0, 1}
        /\ times[c] + Cardinality(Doing(c)) + Spare(c) <= 1 + again[c]
    BY DEF Inv, TypeOK, Accounted, Spare
  <2>2. Cardinality(Doing(c)) \in Nat
    BY BoundsAssumption, FS_Subset, FS_CardinalityType DEF Doing
  <2> QED BY <2>1, <2>2
<1> QED BY <1>1, InvariantHolds, PTL
=============================================================================
