----------------------------- MODULE Readiness -----------------------------
(***************************************************************************)
(* The readiness keystone of the release tooling                           *)
(* (xtask/src/readiness_keystone.rs over readiness.rs): it reads an        *)
(* attestation signed elsewhere, the commit checked out and the committed  *)
(* runner lock, in that order and with nothing held in between, and        *)
(* publishes the attestation under a name that must not exist.  Other      *)
(* keystones, captures, commits and crashes interleave with every step.    *)
(***************************************************************************)
EXTENDS RunnerLock

CONSTANT Commit

\* What the independent verifier can have put in the file: the commit and the
\* lock it names, and whether it is ready, lists blockers, or fails the
\* checks that need nothing but the file (shape, signature, dates).
Verdict == {"ready", "blocked", "invalid"}
Claim == [source : Commit, lock : Run, verdict : Verdict]

ASSUME ClaimAssumption == none \notin Claim /\ none \notin Commit

VARIABLES
    head,       \* the commit checked out
    stage,      \* where each keystone is
    claim,      \* the attestation each read
    source,     \* the commit each read
    out,        \* the published attestation
    outKept,    \* what a power cut can leave of it
    receipt,    \* the attestation each was last told is published
    heads       \* every commit checked out since each keystone started

keyVars == <<head, stage, claim, source, out, outKept, receipt, heads>>
vars == <<lockVars, keyVars>>

TypeOK ==
    /\ RunnerTypeOK
    /\ head \in Commit
    /\ stage \in [Reader -> {"off", "loaded", "sourced", "opening", "checked", "linked"}]
    /\ claim \in [Reader -> Claim \union {none}]
    /\ source \in [Reader -> Commit \union {none}]
    /\ out \in Claim \union {none}
    /\ outKept \in SUBSET (Claim \union {none})
    /\ out \in outKept
    /\ receipt \in [Reader -> Claim \union {none}]
    /\ heads \in [Reader -> SUBSET Commit]

Init ==
    /\ RunnerInit
    /\ head \in Commit
    /\ stage = [k \in Reader |-> "off"]
    /\ claim = [k \in Reader |-> none]
    /\ source = [k \in Reader |-> none]
    /\ out = none
    /\ outKept = {none}
    /\ receipt = [k \in Reader |-> none]
    /\ heads = [k \in Reader |-> {}]

-----------------------------------------------------------------------------
Enter(k, s) == stage' = [stage EXCEPT ![k] = s]

\* The call returns or its process is gone.
Leave(k) ==
    /\ Enter(k, "off")
    /\ claim' = [claim EXCEPT ![k] = none]
    /\ source' = [source EXCEPT ![k] = none]
    /\ heads' = [heads EXCEPT ![k] = {}]

Load(k) ==
    /\ stage[k] = "off"
    /\ pc[k] = "idle"
    /\ \E c \in Claim : claim' = [claim EXCEPT ![k] = c]
    /\ heads' = [heads EXCEPT ![k] = {head}]
    /\ Enter(k, "loaded")
    /\ UNCHANGED <<lockVars, head, source, out, outKept, receipt>>

ReadSource(k) ==
    /\ stage[k] = "loaded"
    /\ source' = [source EXCEPT ![k] = head]
    /\ Enter(k, "sourced")
    /\ UNCHANGED <<lockVars, head, claim, out, outKept, receipt, heads>>

OpenLock(k) ==
    /\ stage[k] = "sourced"
    /\ Arrive(k)
    /\ Enter(k, "opening")
    /\ UNCHANGED <<head, claim, source, out, outKept, receipt, heads>>

\* A plausible bug: the commit is not compared.
BindsAnySource(k) ==
    /\ claim[k].verdict # "invalid"
    /\ claim[k].lock = opened[k]

\* assess_and_bind, and the gate of verify_and_publish.
Binds(k) ==
    /\ claim[k].verdict # "invalid"
    /\ claim[k].source = source[k]
    /\ claim[k].lock = opened[k]

Assess(k) ==
    /\ stage[k] = "opening"
    /\ pc[k] = "idle"
    /\ Binds(k)
    /\ claim[k].verdict = "ready"
    /\ Enter(k, "checked")
    /\ UNCHANGED <<lockVars, head, claim, source, out, outKept, receipt, heads>>

\* A plausible bug: a rename, which replaces what is there.
LinkOver(k) ==
    /\ stage[k] = "checked"
    /\ out' = claim[k]
    /\ outKept' = outKept \union {claim[k]}
    /\ Enter(k, "linked")
    /\ UNCHANGED <<lockVars, head, claim, source, receipt, heads>>

\* production_publish: the file is written under a random name and fsynced,
\* then linked to its own; a link never replaces.
Link(k) ==
    /\ stage[k] = "checked"
    /\ out = none
    /\ out' = claim[k]
    /\ outKept' = outKept \union {claim[k]}
    /\ Enter(k, "linked")
    /\ UNCHANGED <<lockVars, head, claim, source, receipt, heads>>

SyncOut(k) ==
    /\ stage[k] = "linked"
    /\ outKept' = {out}
    /\ receipt' = [receipt EXCEPT ![k] = claim[k]]
    /\ Leave(k)
    /\ UNCHANGED <<lockVars, head, out>>

\* A check refuses, a name exists, a call fails, or the process is killed
\* outside the opening of the lock.  After the link, the file stays.
Refuse(k) ==
    /\ stage[k] # "off"
    /\ pc[k] = "idle"
    /\ Leave(k)
    /\ UNCHANGED <<lockVars, head, out, outKept, receipt>>

KillKeystone(k) ==
    /\ Kill(k)
    /\ Leave(k)
    /\ UNCHANGED <<head, out, outKept, receipt>>

MoveHead ==
    /\ head' \in Commit \ {head}
    /\ heads' = [k \in Reader |-> IF stage[k] = "off" THEN {} ELSE heads[k] \union {head'}]
    /\ UNCHANGED <<lockVars, stage, claim, source, out, outKept, receipt>>

PowerFails ==
    /\ PowerCut
    /\ out' \in outKept
    /\ outKept' = {out'}
    /\ stage' = [k \in Reader |-> "off"]
    /\ claim' = [k \in Reader |-> none]
    /\ source' = [k \in Reader |-> none]
    /\ heads' = [k \in Reader |-> {}]
    /\ UNCHANGED <<head, receipt>>

\* The steps of a capture, and of a keystone that is opening the lock.
LockStep ==
    /\ \/ \E r \in Run : Arrive(r) \/ Kill(r) \/ Publish(r)
       \/ \E a \in Actor : Acquire(a) \/ Recover(a) \/ Fail(a)
       \/ \E k \in Reader : Open(k)
    /\ UNCHANGED keyVars

Next ==
    \/ \E k \in Reader :
        \/ Load(k) \/ ReadSource(k) \/ OpenLock(k) \/ Assess(k)
        \/ Link(k) \/ SyncOut(k) \/ Refuse(k) \/ KillKeystone(k)
    \/ LockStep
    \/ MoveHead
    \/ PowerFails

Spec == Init /\ [][Next]_vars

-----------------------------------------------------------------------------
\* An attestation appears only if it says ready, passed its checks, names a
\* commit that was checked out while the keystone ran, and a lock whose
\* publication did not report a failure.
PublishedIsAuthorized ==
    [][\A c \in Claim : out = none /\ out' = c =>
            /\ c.verdict = "ready"
            /\ result[c.lock] \in {"ok", "died", "lost"}
            /\ \E k \in Reader : claim[k] = c /\ c.source \in heads[k]]_vars

\* A keystone that returned success published for good: no other keystone and
\* no crash replaces or loses what it was told is there.
RetainedForGood ==
    \A k \in Reader : receipt[k] # none => outKept = {receipt[k]}

\* Not so: what is published is what some keystone reported as published.
PublishedIsReported ==
    out # none => \E k \in Reader : stage[k] = "linked" \/ receipt[k] = out
=============================================================================
