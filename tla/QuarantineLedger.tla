-------------------------- MODULE QuarantineLedger --------------------------
(***************************************************************************)
(* What the quarantine registry promises, with no job, no HTTP call and no *)
(* crash in sight.  A mutation of an account is a call of several writes.  *)
(* The service calls to take an account out of dispatch only once it has   *)
(* written the intention down, calls to put it back only once it has       *)
(* written that down, changes nothing it has written while the call is     *)
(* under way, and forgets an account only when the service is not what     *)
(* keeps it out of dispatch.                                               *)
(***************************************************************************)
CONSTANT Accounts

VARIABLES
  phase,   \* what the registry knows of an account
  call,    \* the mutation of an account the service is carrying out
  owner,   \* who last took it out of dispatch or put it back
  tainted  \* accounts changed by a write whose caller was gone

vars == <<phase, call, owner, tainted>>

Owners == {"human", "service", "restored"}

Init ==
  /\ phase = [a \in Accounts |-> "free"]
  /\ call = [a \in Accounts |-> "none"]
  /\ owner = [a \in Accounts |-> "human"]
  /\ tainted = {}

-----------------------------------------------------------------------------
(* The service.                                                            *)

\* What is written down when a call begins: the first time, or again.
Begin(a, before, to, mutation) ==
  /\ call[a] = "none" /\ phase[a] \in {before, to}
  /\ phase' = [phase EXCEPT ![a] = to]
  /\ call' = [call EXCEPT ![a] = mutation]
  /\ UNCHANGED <<owner, tainted>>

Suspect(a) == Begin(a, "free", "suspect", "off")
BeginRelease(a) == Begin(a, "held", "releasing", "on")

\* A write of a call, perhaps its last.
Mutate(a, mutation, o) ==
  /\ call[a] = mutation
  /\ call' = [call EXCEPT ![a] = "none"] \/ UNCHANGED call
  /\ owner' = [owner EXCEPT ![a] = o]
  /\ UNCHANGED <<phase, tainted>>

TakeOff(a) == Mutate(a, "off", "service")
PutBack(a) == Mutate(a, "on", "restored")

EndCall(a) ==
  /\ call' = [call EXCEPT ![a] = "none"]
  /\ UNCHANGED <<phase, owner, tainted>>

\* What is written down of a call that is over.
Move(a, from, to) ==
  /\ call[a] = "none" /\ phase[a] = from
  /\ phase' = [phase EXCEPT ![a] = to]
  /\ UNCHANGED <<call, owner, tainted>>

Forgettable(a) == owner[a] # "service" \/ a \in tainted

Confirm(a) == Move(a, "suspect", "held")
Drop(a) == Forgettable(a) /\ Move(a, "suspect", "free")
AbandonRelease(a) == Move(a, "releasing", "held")
Release(a) == Forgettable(a) /\ Move(a, "releasing", "free")

-----------------------------------------------------------------------------
(* Everyone else.                                                          *)

\* An operator edits the account.
Edit(a) ==
  /\ owner' = [owner EXCEPT ![a] = "human"]
  /\ UNCHANGED <<phase, call, tainted>>

\* A write lands whose caller is gone.
Land(a) ==
  /\ \E o \in Owners : owner' = [owner EXCEPT ![a] = o]
  /\ tainted' = tainted \cup {a}
  /\ UNCHANGED <<phase, call>>

Next ==
  \E a \in Accounts :
    \/ Suspect(a) \/ BeginRelease(a) \/ TakeOff(a) \/ PutBack(a) \/ EndCall(a)
    \/ Confirm(a) \/ Drop(a) \/ AbandonRelease(a) \/ Release(a)
    \/ Edit(a) \/ Land(a)

Spec == Init /\ [][Next]_vars
=============================================================================
